---- MODULE Spec2Model ----
(***************************************************************************)
(* Model of ComputeFunctionManager (src/core/manager/cfm.rs): the plugin   *)
(* registry with its three tokio mutexes (functions, loaded_libraries,     *)
(* builtins), the async operations load_plugin, load_builtin_function,     *)
(* unload_plugin and push_request run by concurrent tasks that share       *)
(* &self, and unload_all / Drop run by the owner that has &mut self.       *)
(* A critical section that contains no .await is one step (acquire, body,  *)
(* release); a task waiting for a mutex is a task whose next step is       *)
(* disabled.  The functions mutex is held across the handler's .await in   *)
(* push_request, so there the holder is visible between steps.             *)
(***************************************************************************)
EXTENDS Naturals, Sequences, FiniteSets

\* ------------------------------------------------------------------ bounds
\* Number of Library::new calls that succeed during one behaviour.
MaxLibs == 2

\* ------------------------------------------------------------- constants
NoTask == 0
NoInst == 0
NoLib == 0

\* Concurrent tasks that hold a shared reference to the manager.
Tasks == {1, 2}

\* The closed enumeration BuiltinFunction.
Kinds == {"Logger"}

\* Names a function instance can carry, and so the targets worth addressing.
Names == {"adder", "logger"}

\* Library paths handed to load_plugin, one per outcome of the load sequence.
Paths == {"rel", "/missing", "/noperm", "/notlib", "/noctor", "/adder", "/loggerlib"}

\* ------------------------------------------------ the environment of a load
\* Path::is_absolute
IsAbsolute(p) == p # "rel"

\* std::fs::try_exists: Ok(true), Ok(false) or Err(e)
TryExists(p) ==
    IF p \in {"rel", "/missing"} THEN "false"
    ELSE IF p = "/noperm" THEN "err"
    ELSE "true"

\* Library::new(path) succeeds
LibraryOpens(p) == p \in {"/noctor", "/adder", "/loggerlib"}

\* Library::get(b"_plugin_create") succeeds on a library opened from p
HasCtor(p) == p \in {"/adder", "/loggerlib"}

\* what a call of `_plugin_create` can return: a null pointer or a new instance
CtorResults == {"null", "instance"}

\* ComputeFunction::name of the instance built by the library opened from p
PluginName(p) == IF p = "/loggerlib" THEN "logger" ELSE "adder"

\* BuiltinFunction::create(kind).name()
BuiltinName(k) == "logger"

\* ------------------------------------------------------- values exchanged
\* GenericStatusCode: the six named classes, Other(u16) and Unknown
Status(c) == [code |-> c, n |-> 0]

\* GenericStatusCode::Other(i)
Other(i) == [code |-> "Other", n |-> i]

\* ComputeResponse::NoContent(status)
NoContent(status) == [variant |-> "NoContent", status |-> status, data |-> "none"]

\* ComputeResponse::Json(ComputeJsonResponse { status, data })
Json(status, data) == [variant |-> "Json", status |-> status, data |-> data]

\* BadRequestError { sender, message, request }
BadRequestError(sender, message, request) ==
    [sender |-> sender, message |-> message, request |-> request]

\* Result::Ok(v)
Ok(v) == [ok |-> TRUE, value |-> v]

\* Result::Err(e)
Err(e) == [ok |-> FALSE, value |-> e]

\* Result::map_err: an Ok is passed through, an Err carries the converted error
map_err(r, converted) == IF r.ok THEN r ELSE Err(converted)

\* impl From<BadRequestError> for AppError: Self::BadRequest(e)
FromBadRequestError(e) == [variant |-> "BadRequest", inner |-> e]

\* ---------------------------------------------- status classes and errors
\* hyper::StatusCode, by its numeric code
OK == 200
BAD_REQUEST == 400
NOT_FOUND == 404
CONFLICT == 409
PRECONDITION_FAILED == 412
IM_A_TEAPOT == 418
INTERNAL_SERVER_ERROR == 500

\* StatusCode::from_u16(i).unwrap_or(d): the codes 100..999 are status codes
FromU16UnwrapOr(i, d) == IF i >= 100 /\ i < 1000 THEN i ELSE d

\* GenericStatusCode::to_status_code
to_status_code(s) ==
    CASE s.code = "Ok" -> OK
      [] s.code = "NotFound" -> NOT_FOUND
      [] s.code = "BadRequest" -> BAD_REQUEST
      [] s.code = "InternalError" -> INTERNAL_SERVER_ERROR
      [] s.code = "Conflict" -> CONFLICT
      [] s.code = "PreconditionFailed" -> PRECONDITION_FAILED
      [] s.code = "Other" -> FromU16UnwrapOr(s.n, IM_A_TEAPOT)
      [] s.code = "Unknown" -> IM_A_TEAPOT

\* impl From<StatusCode> for GenericStatusCode
FromStatusCode(code) ==
    CASE code = OK -> Status("Ok")
      [] code = NOT_FOUND -> Status("NotFound")
      [] code = BAD_REQUEST -> Status("BadRequest")
      [] code = INTERNAL_SERVER_ERROR -> Status("InternalError")
      [] OTHER -> Other(code)

\* GenericStatusCode::from_u16
from_u16(i) ==
    CASE i = 200 -> Status("Ok")
      [] i = 400 -> Status("BadRequest")
      [] i = 404 -> Status("NotFound")
      [] i = 409 -> Status("Conflict")
      [] i = 412 -> Status("PreconditionFailed")
      [] i = 500 -> Status("InternalError")
      [] i = 0 -> Status("Unknown")
      [] OTHER -> Other(i)

\* to_u16 as it would be if Unknown were numbered like to_status_code numbers it
ToU16Teapot(s) ==
    CASE s.code = "Ok" -> 200
      [] s.code = "NotFound" -> 404
      [] s.code = "Conflict" -> 409
      [] s.code = "PreconditionFailed" -> 412
      [] s.code = "BadRequest" -> 400
      [] s.code = "InternalError" -> 500
      [] s.code = "Other" -> s.n
      [] s.code = "Unknown" -> 418

\* GenericStatusCode::to_u16
to_u16(s) ==
    CASE s.code = "Ok" -> 200
      [] s.code = "NotFound" -> 404
      [] s.code = "Conflict" -> 409
      [] s.code = "PreconditionFailed" -> 412
      [] s.code = "BadRequest" -> 400
      [] s.code = "InternalError" -> 500
      [] s.code = "Other" -> s.n
      [] s.code = "Unknown" -> 0

\* ComputeResponse::status
status(r) == r.status

\* ComputeResponse::http_status
http_status(r) == to_status_code(status(r))

\* ComputeResponse::data: None for NoContent, Some(data) for Json
data(r) == IF r.variant = "NoContent" THEN {} ELSE {r.data}

\* ComputeResponse::into_warp and into_axum: the transport response carries the status
\* code and, when there is data, the data as its JSON body
into_response(r) == [status |-> http_status(r), body |-> data(r)]

\* an AppError value: the variant and what it carries
AppError(variant, inner) == [variant |-> variant, inner |-> inner]

\* a LoadingError or UnloadingError value: the kind and what it carries
SubError(kind, msg) == [kind |-> kind, msg |-> msg]

\* the kinds of LoadingError
LoadingKinds ==
    {"BadPath", "PathNotFound", "LibraryLoadFailure", "ConstructorLoadFailure",
     "ConstructorCallFailure", "FunctionNameCollision"}

\* the kinds of UnloadingError
UnloadingKinds == {"TargetNotFound", "UnableToUnload"}

\* messages and targets carried by the sampled errors
Messages == {"", "adder"}

\* the AppError values
AppErrors ==
    {AppError("BadInput", m) : m \in Messages}
    \cup {AppError("BadRequest", BadRequestError(n, m, "None")) : n \in Names, m \in Messages}
    \cup {AppError("TargetNotFound", n) : n \in Names}
    \cup {AppError("Loading", SubError(k, m)) : k \in LoadingKinds, m \in Messages}
    \cup {AppError("Unloading", SubError(k, m)) : k \in UnloadingKinds, m \in Messages}
    \cup {AppError("Other", m) : m \in Messages}
    \cup {AppError("None", "")}

\* AppError::as_generic_status_code as it would be if every loading error were
\* reported as an internal error
AsGenericStatusCodeFlat(e) ==
    CASE e.variant \in {"BadInput", "BadRequest"} -> Status("BadRequest")
      [] e.variant = "Unloading" ->
            IF e.inner.kind = "TargetNotFound" THEN Status("NotFound")
            ELSE Status("InternalError")
      [] e.variant = "Loading" -> Status("InternalError")
      [] e.variant = "TargetNotFound" -> Status("NotFound")
      [] e.variant \in {"Other", "None"} -> Status("InternalError")

\* AppError::as_generic_status_code
as_generic_status_code(e) ==
    CASE e.variant \in {"BadInput", "BadRequest"} -> Status("BadRequest")
      [] e.variant = "Unloading" ->
            IF e.inner.kind = "TargetNotFound" THEN Status("NotFound")
            ELSE Status("InternalError")
      [] e.variant = "Loading" ->
            CASE e.inner.kind = "FunctionNameCollision" -> Status("Conflict")
              [] e.inner.kind = "BadPath" -> Status("PreconditionFailed")
              [] e.inner.kind = "PathNotFound" -> Status("NotFound")
              [] OTHER -> Status("InternalError")
      [] e.variant = "TargetNotFound" -> Status("NotFound")
      [] e.variant \in {"Other", "None"} -> Status("InternalError")

\* 16-bit codes carried by the sampled Other(i)
U16Samples == {0, 99, 100, 200, 400, 404, 409, 412, 418, 500, 999, 1000, 65535}

\* the GenericStatusCode values
GenericStatusCodes ==
    {Status(c) : c \in {"Ok", "NotFound", "BadRequest", "InternalError", "Conflict",
                        "PreconditionFailed", "Unknown"}}
    \cup {Other(i) : i \in U16Samples}

\* JSON payloads of the sampled responses
JsonValues == {"null", "{}"}

\* the ComputeResponse values
ComputeResponses ==
    {NoContent(s) : s \in GenericStatusCodes}
    \cup {Json(s, d) : s \in GenericStatusCodes, d \in JsonValues}

\* no conversion was applied
NoConv == [fn |-> "none"]

\* Mutex::default() for loaded_libraries and builtins: nobody holds them
NoGuards == [m \in {"loaded_libraries", "builtins"} |-> NoTask]

\* ------------------------------------------------------------------ state
VARIABLES
    functions,         \* Mutex<HashMap<String, Box<dyn ComputeFunction>>>: name -> instance
    loaded_libraries,  \* Mutex<Vec<Library>>: the handles, in push order
    builtins,          \* Mutex<BuiltinFunctionList>: set of kinds
    fnLock,            \* task holding the functions mutex across an .await
    insts,             \* the instances that exist (boxed and not yet dropped)
    opened,            \* number of libraries opened so far
    pc,                \* per task: position inside its operation
    arg,               \* per task: library_path, target name or kind of the running call
    lib,               \* per task: the handle opened by the running load_plugin call
    plugin,            \* per task: the instance the running call constructed / looked up
    ret,               \* the call that has just returned, with its value, until observed
    gone,              \* the instances dropped by the step just taken, as they were then
    owner,             \* position of the owner (unload_all, Drop)
    unloaded,          \* names removed by unload_plugin and not registered since
    conv,              \* the conversion applied to the value just produced: input and output
    guards             \* task holding the loaded_libraries mutex and the builtins mutex

vars == <<functions, loaded_libraries, builtins, fnLock, insts, opened,
          pc, arg, lib, plugin, ret, gone, owner, unloaded, conv, guards>>

taskVars == <<pc, arg, lib, plugin>>

\* ---------------------------------------------------------------- helpers
Last(s) == s[Len(s)]

\* a freshly constructed instance: no hook has run on it, it was never inserted
NewInst(name, fromLib, by) ==
    [name |-> name, lib |-> fromLib, by |-> by, loads |-> 0, unloads |-> 0,
     inserted |-> FALSE]

\* a library handle: Library::new(p)
NewLib(id, p) == [id |-> id, path |-> p]

\* the identity of the next boxed instance: one that no existing instance has
FreshInst(is) ==
    CHOOSE i \in 1..(Cardinality(DOMAIN is) + 1) :
        i \notin DOMAIN is /\ \A j \in 1..(i - 1) : j \in DOMAIN is

\* the existing instances and a new one
Boxed(is, i, rec) == [j \in DOMAIN is \cup {i} |-> IF j = i THEN rec ELSE is[j]]

\* the existing instances once those of S are dropped
Dropped(is, S) == [j \in DOMAIN is \ S |-> is[j]]

NoInsts == [j \in {} |-> NewInst("", NoLib, "")]

\* no call has returned
NoRet == [op |-> "none", arg |-> "", tag |-> "none", val |-> "", detail |-> "",
          lib |-> NoLib, plugin |-> NoInst]

\* the call o(a) returned tag(val); l and i are the handle and the instance it worked on
Returned(o, a, tag, val, detail, l, i) ==
    [op |-> o, arg |-> a, tag |-> tag, val |-> val, detail |-> detail,
     lib |-> l, plugin |-> i]

\* ComputeFunction::on_plugin_load called on instance i
on_plugin_load(is, i) == [is EXCEPT ![i].loads = @ + 1]

\* ComputeFunction::on_plugin_unload called on instance i
on_plugin_unload(is, i) == [is EXCEPT ![i].unloads = @ + 1]

\* HashMap::insert(name, instance): puts or replaces the entry under name
MapInsert(m, name, i) == [m EXCEPT ![name] = i]

\* HashMap::remove(name)
MapRemove(m, name) == [m EXCEPT ![name] = NoInst]

\* HashMap::contains_key(name)
contains_key(m, name) == m[name] # NoInst

EmptyTable == [n \in Names |-> NoInst]

\* the instances held by table m
Held(m) == {m[n] : n \in Names} \ {NoInst}

Idle(t) == pc[t] = "idle"

\* task t is at position l and no returned value waits for its caller
At(t, l) == pc[t] = l /\ ret = NoRet

\* a call can start only while the manager exists and the owner is not using &mut self
CanCall(t) == At(t, "idle") /\ owner = "live"

\* the owner is at one of the positions ls
OwnerAt(ls) == owner \in ls /\ ret = NoRet

\* the locals of a call are gone when it returns
Finish(t) ==
    /\ pc' = [pc EXCEPT ![t] = "idle"]
    /\ arg' = [arg EXCEPT ![t] = ""]
    /\ lib' = [lib EXCEPT ![t] = NoLib]
    /\ plugin' = [plugin EXCEPT ![t] = NoInst]

\* ------------------------------------------------------------ construction
\* ComputeFunctionManager::load_builtin_instance on a fresh manager
load_builtin_instance(name) ==
    /\ insts = Boxed(NoInsts, 1, [NewInst(name, NoLib, "load_builtin_instance")
                                  EXCEPT !.inserted = TRUE])
    /\ functions = MapInsert(EmptyTable, name, 1)

\* ComputeFunctionManager::new
new ==
    /\ functions = EmptyTable
    /\ insts = NoInsts

\* ComputeFunctionManager::with_logger
with_logger == load_builtin_instance(BuiltinName("Logger"))

\* ComputeFunctionManager::with_builtins(funcs): one load_builtin_instance per kind
with_builtins ==
    \E funcs \in SUBSET Kinds :
        IF funcs = {} THEN new
        ELSE \E k \in funcs : load_builtin_instance(BuiltinName(k))

Init ==
    /\ (new \/ with_logger \/ with_builtins)
    /\ loaded_libraries = <<>>
    /\ builtins = {}
    /\ fnLock = NoTask
    /\ opened = 0
    /\ pc = [t \in Tasks |-> "idle"]
    /\ arg = [t \in Tasks |-> ""]
    /\ lib = [t \in Tasks |-> NoLib]
    /\ plugin = [t \in Tasks |-> NoInst]
    /\ ret = NoRet
    /\ gone = {}
    /\ owner = "live"
    /\ unloaded = {}
    /\ conv = NoConv
    /\ guards = NoGuards

\* ============================================================ load_plugin
\* Path validation, Library::new and the push of the handle under the first
\* loaded_libraries guard (cfm.rs 128-164).  Every failure here returns before a
\* handle exists.
LpOpen(t, p) ==
    /\ CanCall(t)
    /\ opened < MaxLibs
    /\ IF ~IsAbsolute(p) THEN
            /\ ret' = Returned("load_plugin", p, "BadPath", p, "not absolute", NoLib, NoInst)
            /\ UNCHANGED <<opened, loaded_libraries, taskVars>>
       ELSE IF TryExists(p) = "false" THEN
            /\ ret' = Returned("load_plugin", p, "PathNotFound", p, "does not exist",
                               NoLib, NoInst)
            /\ UNCHANGED <<opened, loaded_libraries, taskVars>>
       ELSE IF TryExists(p) = "err" THEN
            /\ ret' = Returned("load_plugin", p, "BadPath", p, "os error", NoLib, NoInst)
            /\ UNCHANGED <<opened, loaded_libraries, taskVars>>
       ELSE IF ~LibraryOpens(p) THEN
            /\ ret' = Returned("load_plugin", p, "LibraryLoadFailure", p, "loader error",
                               NoLib, NoInst)
            /\ UNCHANGED <<opened, loaded_libraries, taskVars>>
       ELSE
            /\ opened' = opened + 1
            /\ loaded_libraries' = Append(loaded_libraries, NewLib(opened + 1, p))
            /\ lib' = [lib EXCEPT ![t] = opened + 1]
            /\ arg' = [arg EXCEPT ![t] = p]
            /\ pc' = [pc EXCEPT ![t] = "lp_ctor"]
            /\ ret' = NoRet
            /\ UNCHANGED plugin
    /\ gone' = {}
    /\ UNCHANGED <<functions, builtins, fnLock, insts, owner, unloaded>>
    /\ UNCHANGED <<conv, guards>>

\* the library whose constructor this call resolves: lib_lock.last().unwrap()
CtorLibrary(t) == Last(loaded_libraries)

\* LpCtor as it would be if a failed construction closed the library again
LpCtorCleansUp(t) ==
    /\ At(t, "lp_ctor")
    /\ LET l == CtorLibrary(t)
       IN  IF ~HasCtor(l.path) THEN
                /\ ret' = Returned("load_plugin", arg[t], "ConstructorLoadFailure", "",
                                   "symbol error", lib[t], NoInst)
                /\ loaded_libraries' = SubSeq(loaded_libraries, 1, Len(loaded_libraries) - 1)
                /\ Finish(t)
                /\ UNCHANGED insts
           ELSE \E boxed_raw \in CtorResults :
                IF boxed_raw = "null" THEN
                    /\ ret' = Returned("load_plugin", arg[t], "ConstructorCallFailure", "",
                                       "", lib[t], NoInst)
                    /\ loaded_libraries' = SubSeq(loaded_libraries, 1,
                                                  Len(loaded_libraries) - 1)
                    /\ Finish(t)
                    /\ UNCHANGED insts
                ELSE
                    /\ insts' = Boxed(insts, FreshInst(insts),
                                      NewInst(PluginName(l.path), l.id, "load_plugin"))
                    /\ plugin' = [plugin EXCEPT ![t] = FreshInst(insts)]
                    /\ pc' = [pc EXCEPT ![t] = "lp_check"]
                    /\ ret' = NoRet
                    /\ UNCHANGED <<arg, lib, loaded_libraries>>
    /\ gone' = {}
    /\ UNCHANGED <<functions, builtins, fnLock, opened, owner, unloaded>>
    /\ UNCHANGED <<conv, guards>>

\* LpCtor as it would be if the raw handle were boxed twice
LpCtorBoxesTwice(t) ==
    /\ At(t, "lp_ctor")
    /\ LET l == CtorLibrary(t)
       IN  IF ~HasCtor(l.path) THEN
                /\ ret' = Returned("load_plugin", arg[t], "ConstructorLoadFailure", "",
                                   "symbol error", lib[t], NoInst)
                /\ Finish(t)
                /\ UNCHANGED insts
           ELSE \E boxed_raw \in CtorResults :
                IF boxed_raw = "null" THEN
                    /\ ret' = Returned("load_plugin", arg[t], "ConstructorCallFailure", "",
                                       "", lib[t], NoInst)
                    /\ Finish(t)
                    /\ UNCHANGED insts
                ELSE
                    LET first == Boxed(insts, FreshInst(insts),
                                       NewInst(PluginName(l.path), l.id, "load_plugin"))
                    IN  /\ insts' = Boxed(first, FreshInst(first),
                                          NewInst(PluginName(l.path), l.id, "load_plugin"))
                        /\ plugin' = [plugin EXCEPT ![t] = FreshInst(insts)]
                        /\ pc' = [pc EXCEPT ![t] = "lp_check"]
                        /\ ret' = NoRet
                        /\ UNCHANGED <<arg, lib>>
    /\ gone' = {}
    /\ UNCHANGED <<functions, loaded_libraries, builtins, fnLock, opened, owner, unloaded>>
    /\ UNCHANGED <<conv, guards>>

\* Second loaded_libraries guard: last().unwrap().get(b"_plugin_create"),
\* constructor(), the null test and Box::from_raw (cfm.rs 173-189)
LpCtor(t) ==
    /\ At(t, "lp_ctor")
    /\ LET l == CtorLibrary(t)
       IN  IF ~HasCtor(l.path) THEN
                /\ ret' = Returned("load_plugin", arg[t], "ConstructorLoadFailure", "",
                                   "symbol error", lib[t], NoInst)
                /\ Finish(t)
                /\ UNCHANGED insts
           ELSE \E boxed_raw \in CtorResults :
                IF boxed_raw = "null" THEN
                    /\ ret' = Returned("load_plugin", arg[t], "ConstructorCallFailure", "",
                                       "", lib[t], NoInst)
                    /\ Finish(t)
                    /\ UNCHANGED insts
                ELSE
                    /\ insts' = Boxed(insts, FreshInst(insts),
                                      NewInst(PluginName(l.path), l.id, "load_plugin"))
                    /\ plugin' = [plugin EXCEPT ![t] = FreshInst(insts)]
                    /\ pc' = [pc EXCEPT ![t] = "lp_check"]
                    /\ ret' = NoRet
                    /\ UNCHANGED <<arg, lib>>
    /\ gone' = {}
    /\ UNCHANGED <<functions, loaded_libraries, builtins, fnLock, opened, owner, unloaded>>
    /\ UNCHANGED <<conv, guards>>

\* LpCheck as it would be if the collision test were left out
LpCheckSkipsCollision(t) ==
    /\ At(t, "lp_check")
    /\ fnLock = NoTask
    /\ insts' = on_plugin_load(insts, plugin[t])
    /\ pc' = [pc EXCEPT ![t] = "lp_add"]
    /\ ret' = NoRet
    /\ gone' = {}
    /\ UNCHANGED <<arg, lib, plugin>>
    /\ UNCHANGED <<functions, loaded_libraries, builtins, fnLock, opened, owner, unloaded>>
    /\ UNCHANGED <<conv, guards>>

\* LpCheck as it would be if on_plugin_load were never called
LpCheckNoHook(t) ==
    /\ At(t, "lp_check")
    /\ fnLock = NoTask
    /\ LET plugin_name == insts[plugin[t]].name
       IN  IF contains_key(functions, plugin_name) THEN
                /\ ret' = Returned("load_plugin", arg[t], "FunctionNameCollision",
                                   plugin_name, "", lib[t], plugin[t])
                /\ gone' = {insts[plugin[t]]}
                /\ insts' = Dropped(insts, {plugin[t]})
                /\ Finish(t)
           ELSE
                /\ pc' = [pc EXCEPT ![t] = "lp_add"]
                /\ ret' = NoRet
                /\ gone' = {}
                /\ UNCHANGED <<arg, lib, plugin, insts>>
    /\ UNCHANGED <<functions, loaded_libraries, builtins, fnLock, opened, owner, unloaded>>
    /\ UNCHANGED <<conv, guards>>

\* LpCheck as it would be if a colliding instance were stored before the collision
\* is reported
LpCheckInsertsFirst(t) ==
    /\ At(t, "lp_check")
    /\ fnLock = NoTask
    /\ LET plugin_name == insts[plugin[t]].name
       IN  IF contains_key(functions, plugin_name) THEN
                /\ ret' = Returned("load_plugin", arg[t], "FunctionNameCollision",
                                   plugin_name, "", lib[t], plugin[t])
                /\ functions' = MapInsert(functions, plugin_name, plugin[t])
                /\ gone' = {insts[functions[plugin_name]]}
                /\ insts' = Dropped(insts, {functions[plugin_name]})
                /\ Finish(t)
           ELSE
                /\ insts' = on_plugin_load(insts, plugin[t])
                /\ pc' = [pc EXCEPT ![t] = "lp_add"]
                /\ ret' = NoRet
                /\ gone' = {}
                /\ UNCHANGED <<arg, lib, plugin, functions>>
    /\ UNCHANGED <<loaded_libraries, builtins, fnLock, opened, owner, unloaded>>
    /\ UNCHANGED <<conv, guards>>

\* First functions guard: contains_key(plugin_name) returns FunctionNameCollision and
\* drops the rejected instance; otherwise the guard is released and
\* plugin.on_plugin_load() runs (cfm.rs 191-200)
LpCheck(t) ==
    /\ At(t, "lp_check")
    /\ fnLock = NoTask
    /\ LET plugin_name == insts[plugin[t]].name
       IN  IF contains_key(functions, plugin_name) THEN
                /\ ret' = Returned("load_plugin", arg[t], "FunctionNameCollision",
                                   plugin_name, "", lib[t], plugin[t])
                /\ gone' = {insts[plugin[t]]}
                /\ insts' = Dropped(insts, {plugin[t]})
                /\ Finish(t)
           ELSE
                /\ insts' = on_plugin_load(insts, plugin[t])
                /\ pc' = [pc EXCEPT ![t] = "lp_add"]
                /\ ret' = NoRet
                /\ gone' = {}
                /\ UNCHANGED <<arg, lib, plugin>>
    /\ UNCHANGED <<functions, loaded_libraries, builtins, fnLock, opened, owner, unloaded>>
    /\ UNCHANGED <<conv, guards>>

\* LpAdd as it would be if the insertion rebuilt the table around the new entry
LpAddClears(t) ==
    /\ At(t, "lp_add")
    /\ fnLock = NoTask
    /\ LET plugin_name == insts[plugin[t]].name
           replaced == Held(functions)
       IN  /\ functions' = MapInsert(EmptyTable, plugin_name, plugin[t])
           /\ gone' = {insts[i] : i \in replaced}
           /\ insts' = Dropped([insts EXCEPT ![plugin[t]].inserted = TRUE], replaced)
           /\ unloaded' = unloaded \ {plugin_name}
    /\ ret' = Returned("load_plugin", arg[t], "Ok", "", "", lib[t], plugin[t])
    /\ Finish(t)
    /\ UNCHANGED <<loaded_libraries, builtins, fnLock, opened, owner>>
    /\ UNCHANGED <<conv, guards>>

\* LpAdd as it would be if the key were derived from the library path of the call
LpAddKeyedByPath(t) ==
    /\ At(t, "lp_add")
    /\ fnLock = NoTask
    /\ LET plugin_name == PluginName(arg[t])
           replaced == Held(functions) \cap {functions[plugin_name]}
       IN  /\ functions' = MapInsert(functions, plugin_name, plugin[t])
           /\ gone' = {insts[i] : i \in replaced}
           /\ insts' = Dropped([insts EXCEPT ![plugin[t]].inserted = TRUE], replaced)
           /\ unloaded' = unloaded \ {plugin_name}
    /\ ret' = Returned("load_plugin", arg[t], "Ok", "", "", lib[t], plugin[t])
    /\ Finish(t)
    /\ UNCHANGED <<loaded_libraries, builtins, fnLock, opened, owner>>
    /\ UNCHANGED <<conv, guards>>

\* Second functions guard: add_lock.insert(plugin_name.to_string(), plugin); Ok(())
\* (cfm.rs 201-204).  HashMap::insert returns the value it replaces, which is dropped
\* here; no hook runs on it.
LpAdd(t) ==
    /\ At(t, "lp_add")
    /\ fnLock = NoTask
    /\ LET plugin_name == insts[plugin[t]].name
           replaced == Held(functions) \cap {functions[plugin_name]}
       IN  /\ functions' = MapInsert(functions, plugin_name, plugin[t])
           /\ gone' = {insts[i] : i \in replaced}
           /\ insts' = Dropped([insts EXCEPT ![plugin[t]].inserted = TRUE], replaced)
           /\ unloaded' = unloaded \ {plugin_name}
    /\ ret' = Returned("load_plugin", arg[t], "Ok", "", "", lib[t], plugin[t])
    /\ Finish(t)
    /\ UNCHANGED <<loaded_libraries, builtins, fnLock, opened, owner>>
    /\ UNCHANGED <<conv, guards>>

load_plugin(t) ==
    \/ \E p \in Paths : LpOpen(t, p)
    \/ LpCtor(t)
    \/ LpCheck(t)
    \/ LpAdd(t)

\* ================================================== load_builtin_function
\* BuiltinFunctionList::add: HashSet::insert, true when the kind was not present
add(list, k) == k \notin list

\* builtins guard: if !lock.add(kind) { return Ok(false) } (cfm.rs 81-86)
LbAdd(t, kind) ==
    /\ CanCall(t)
    /\ IF ~add(builtins, kind) THEN
            /\ ret' = Returned("load_builtin_function", kind, "Ok", "false", "",
                               NoLib, NoInst)
            /\ UNCHANGED <<builtins, taskVars>>
       ELSE
            /\ builtins' = builtins \cup {kind}
            /\ arg' = [arg EXCEPT ![t] = kind]
            /\ pc' = [pc EXCEPT ![t] = "lb_insert"]
            /\ ret' = NoRet
            /\ UNCHANGED <<lib, plugin>>
    /\ gone' = {}
    /\ UNCHANGED <<functions, loaded_libraries, fnLock, insts, opened, owner, unloaded>>
    /\ UNCHANGED <<conv, guards>>

\* LbInsert as it would be if a built-in were given a library handle of its own
LbInsertPushes(t) ==
    /\ At(t, "lb_insert")
    /\ fnLock = NoTask
    /\ LET func == FreshInst(insts)
           name == BuiltinName(arg[t])
           replaced == Held(functions) \cap {functions[name]}
       IN  /\ functions' = MapInsert(functions, name, func)
           /\ gone' = {insts[i] : i \in replaced}
           /\ insts' = Dropped(Boxed(insts, func,
                                     [NewInst(name, NoLib, "load_builtin_function")
                                      EXCEPT !.inserted = TRUE]), replaced)
           /\ unloaded' = unloaded \ {name}
           /\ ret' = Returned("load_builtin_function", arg[t], "Ok", "true", "",
                              NoLib, func)
    /\ loaded_libraries' = Append(loaded_libraries, NewLib(opened, "builtin"))
    /\ Finish(t)
    /\ UNCHANGED <<builtins, fnLock, opened, owner>>
    /\ UNCHANGED <<conv, guards>>

\* functions guard: let func = kind.create(); lock.insert(func.name().to_string(), func);
\* Ok(true) (cfm.rs 88-94)
LbInsert(t) ==
    /\ At(t, "lb_insert")
    /\ fnLock = NoTask
    /\ LET func == FreshInst(insts)
           name == BuiltinName(arg[t])
           replaced == Held(functions) \cap {functions[name]}
       IN  /\ functions' = MapInsert(functions, name, func)
           /\ gone' = {insts[i] : i \in replaced}
           /\ insts' = Dropped(Boxed(insts, func,
                                     [NewInst(name, NoLib, "load_builtin_function")
                                      EXCEPT !.inserted = TRUE]), replaced)
           /\ unloaded' = unloaded \ {name}
           /\ ret' = Returned("load_builtin_function", arg[t], "Ok", "true", "",
                              NoLib, func)
    /\ Finish(t)
    /\ UNCHANGED <<loaded_libraries, builtins, fnLock, opened, owner>>
    /\ UNCHANGED <<conv, guards>>

load_builtin_function(t) ==
    \/ \E kind \in Kinds : LbAdd(t, kind)
    \/ LbInsert(t)


\* ========================================================== unload_plugin
\* unload_plugin as it would be if it looked the entry up without removing it
UnloadKeepsEntry(t, target) ==
    /\ CanCall(t)
    /\ fnLock = NoTask
    /\ LET removed == functions[target]
       IN  IF removed = NoInst THEN
                /\ ret' = Returned("unload_plugin", target, "Unloading::TargetNotFound",
                                   target, "", NoLib, NoInst)
                /\ UNCHANGED <<insts, unloaded>>
           ELSE
                /\ insts' = on_plugin_unload(insts, removed)
                /\ unloaded' = unloaded \cup {target}
                /\ ret' = Returned("unload_plugin", target, "Ok", "", "", NoLib, removed)
    /\ gone' = {}
    /\ UNCHANGED <<functions, loaded_libraries, builtins, fnLock, opened, taskVars, owner>>
    /\ UNCHANGED <<conv, guards>>

\* unload_plugin as it would be if an absent target were reported as success
UnloadAbsentOk(t, target) ==
    /\ CanCall(t)
    /\ fnLock = NoTask
    /\ LET removed == functions[target]
       IN  IF removed = NoInst THEN
                /\ ret' = Returned("unload_plugin", target, "Ok", "", "", NoLib, NoInst)
                /\ gone' = {}
                /\ UNCHANGED <<functions, insts, unloaded>>
           ELSE
                /\ functions' = MapRemove(functions, target)
                /\ gone' = {on_plugin_unload(insts, removed)[removed]}
                /\ insts' = Dropped(insts, {removed})
                /\ unloaded' = unloaded \cup {target}
                /\ ret' = Returned("unload_plugin", target, "Ok", "", "", NoLib, removed)
    /\ UNCHANGED <<loaded_libraries, builtins, fnLock, opened, taskVars, owner>>
    /\ UNCHANGED <<conv, guards>>

\* unload_plugin as it would be if it also closed the library of the removed instance
UnloadReleasesLibrary(t, target) ==
    /\ CanCall(t)
    /\ fnLock = NoTask
    /\ LET removed == functions[target]
       IN  IF removed = NoInst THEN
                /\ ret' = Returned("unload_plugin", target, "Unloading::TargetNotFound",
                                   target, "", NoLib, NoInst)
                /\ gone' = {}
                /\ UNCHANGED <<functions, insts, unloaded, loaded_libraries>>
           ELSE
                /\ functions' = MapRemove(functions, target)
                /\ gone' = {on_plugin_unload(insts, removed)[removed]}
                /\ insts' = Dropped(insts, {removed})
                /\ unloaded' = unloaded \cup {target}
                /\ loaded_libraries' = SelectSeq(loaded_libraries,
                                                 LAMBDA l : l.id # insts[removed].lib)
                /\ ret' = Returned("unload_plugin", target, "Ok", "", "", NoLib, removed)
    /\ UNCHANGED <<builtins, fnLock, opened, taskVars, owner>>
    /\ UNCHANGED <<conv, guards>>

\* unload_plugin as it would be if it reached the table without waiting for the guard
UnloadSkipsGuard(t, target) ==
    /\ CanCall(t)
    /\ LET removed == functions[target]
       IN  IF removed = NoInst THEN
                /\ ret' = Returned("unload_plugin", target, "Unloading::TargetNotFound",
                                   target, "", NoLib, NoInst)
                /\ gone' = {}
                /\ UNCHANGED <<functions, insts, unloaded>>
           ELSE
                /\ functions' = MapRemove(functions, target)
                /\ gone' = {on_plugin_unload(insts, removed)[removed]}
                /\ insts' = Dropped(insts, {removed})
                /\ unloaded' = unloaded \cup {target}
                /\ ret' = Returned("unload_plugin", target, "Ok", "", "", NoLib, removed)
    /\ UNCHANGED <<loaded_libraries, builtins, fnLock, opened, taskVars, owner>>
    /\ UNCHANGED <<conv, guards>>

\* functions guard: fn_locked.remove(target.name()).map_or_else(
\*   || Err(TargetNotFound(target.clone())), |plugin| { plugin.on_plugin_unload(); Ok(()) })
\* (cfm.rs 222-231)
unload_plugin(t, target) ==
    /\ CanCall(t)
    /\ fnLock = NoTask
    /\ LET removed == functions[target]
       IN  IF removed = NoInst THEN
                /\ ret' = Returned("unload_plugin", target, "Unloading::TargetNotFound",
                                   target, "", NoLib, NoInst)
                /\ gone' = {}
                /\ UNCHANGED <<functions, insts, unloaded>>
           ELSE
                /\ functions' = MapRemove(functions, target)
                /\ gone' = {on_plugin_unload(insts, removed)[removed]}
                /\ insts' = Dropped(insts, {removed})
                /\ unloaded' = unloaded \cup {target}
                /\ ret' = Returned("unload_plugin", target, "Ok", "", "", NoLib, removed)
    /\ UNCHANGED <<loaded_libraries, builtins, fnLock, opened, taskVars, owner>>
    /\ UNCHANGED <<conv, guards>>

\* =========================================================== push_request
\* PrGet as it would be if an unknown target fell back to some registered function
PrGetFallback(t, target) ==
    /\ CanCall(t)
    /\ fnLock = NoTask
    /\ LET found == IF functions[target] # NoInst \/ Held(functions) = {}
                    THEN functions[target]
                    ELSE CHOOSE i \in Held(functions) : TRUE
       IN  IF found = NoInst THEN
                /\ ret' = Returned("push_request", target, "TargetNotFound", target, "",
                                   NoLib, NoInst)
                /\ UNCHANGED <<fnLock, taskVars>>
           ELSE
                /\ fnLock' = t
                /\ plugin' = [plugin EXCEPT ![t] = found]
                /\ arg' = [arg EXCEPT ![t] = target]
                /\ pc' = [pc EXCEPT ![t] = "pr_handler"]
                /\ ret' = NoRet
                /\ UNCHANGED lib
    /\ gone' = {}
    /\ UNCHANGED <<functions, loaded_libraries, builtins, insts, opened, owner, unloaded>>
    /\ UNCHANGED <<conv, guards>>

\* PrGet as it would be if the guard were released before the handler is awaited
PrGetReleases(t, target) ==
    /\ CanCall(t)
    /\ fnLock = NoTask
    /\ LET found == functions[target]
       IN  IF found = NoInst THEN
                /\ ret' = Returned("push_request", target, "TargetNotFound", target, "",
                                   NoLib, NoInst)
                /\ UNCHANGED <<fnLock, taskVars>>
           ELSE
                /\ fnLock' = NoTask
                /\ plugin' = [plugin EXCEPT ![t] = found]
                /\ arg' = [arg EXCEPT ![t] = target]
                /\ pc' = [pc EXCEPT ![t] = "pr_handler"]
                /\ ret' = NoRet
                /\ UNCHANGED lib
    /\ gone' = {}
    /\ UNCHANGED <<functions, loaded_libraries, builtins, insts, opened, owner, unloaded>>
    /\ UNCHANGED <<conv, guards>>

\* PrGet as it would be if a failed lookup left an empty slot behind: the name is
\* recorded as known to the built-in tracking set
PrGetRecordsMiss(t, target) ==
    /\ CanCall(t)
    /\ fnLock = NoTask
    /\ LET found == functions[target]
       IN  IF found = NoInst THEN
                /\ ret' = Returned("push_request", target, "TargetNotFound", target, "",
                                   NoLib, NoInst)
                /\ builtins' = builtins \cup {k \in Kinds : BuiltinName(k) = target}
                /\ UNCHANGED <<fnLock, taskVars>>
           ELSE
                /\ fnLock' = t
                /\ plugin' = [plugin EXCEPT ![t] = found]
                /\ arg' = [arg EXCEPT ![t] = target]
                /\ pc' = [pc EXCEPT ![t] = "pr_handler"]
                /\ ret' = NoRet
                /\ UNCHANGED <<lib, builtins>>
    /\ gone' = {}
    /\ UNCHANGED <<functions, loaded_libraries, insts, opened, owner, unloaded>>
    /\ UNCHANGED <<conv, guards>>

\* functions guard and plugins.get(id): None returns AppError::TargetNotFound(target);
\* Some(plugin) starts plugin.receive_request(request), which may suspend with the
\* guard held (cfm.rs 274-285)
PrGet(t, target) ==
    /\ CanCall(t)
    /\ fnLock = NoTask
    /\ LET found == functions[target]
       IN  IF found = NoInst THEN
                /\ ret' = Returned("push_request", target, "TargetNotFound", target, "",
                                   NoLib, NoInst)
                /\ UNCHANGED <<fnLock, taskVars>>
           ELSE
                /\ fnLock' = t
                /\ plugin' = [plugin EXCEPT ![t] = found]
                /\ arg' = [arg EXCEPT ![t] = target]
                /\ pc' = [pc EXCEPT ![t] = "pr_handler"]
                /\ ret' = NoRet
                /\ UNCHANGED lib
    /\ gone' = {}
    /\ UNCHANGED <<functions, loaded_libraries, builtins, insts, opened, owner, unloaded>>
    /\ UNCHANGED <<conv, guards>>

\* what receive_request of the instance named n can return: a response of either
\* variant, or a BadRequestError with or without the offending request attached
HandlerResults(n) ==
    {Ok(NoContent(Status("Ok"))),
     Ok(Json(Status("NotFound"), "{}")),
     Err(BadRequestError(n, "invalid data", "Some(request)")),
     Err(BadRequestError(n, "unsupported", "None"))}

\* PrHandler as it would be if a handler error were collapsed into a new error that
\* keeps only the sender
PrHandlerRewraps(t) ==
    /\ At(t, "pr_handler")
    /\ \E r \in HandlerResults(insts[plugin[t]].name) :
           LET strip(e) == FromBadRequestError(BadRequestError(e.sender, "", "None"))
           IN  /\ conv' = [fn |-> "map_err", input |-> r, output |-> map_err(r, strip(r.value))]
               /\ ret' = Returned("push_request", arg[t],
                                  IF r.ok THEN "Response" ELSE "BadRequest",
                                  insts[plugin[t]].name, "", NoLib, plugin[t])
    /\ fnLock' = NoTask
    /\ gone' = {}
    /\ Finish(t)
    /\ UNCHANGED <<functions, loaded_libraries, builtins, insts, opened, owner, unloaded>>
    /\ UNCHANGED guards

\* PrHandler as it would be if the guard outlived the call
PrHandlerKeepsGuard(t) ==
    /\ At(t, "pr_handler")
    /\ \E r \in HandlerResults(insts[plugin[t]].name) :
           /\ conv' = [fn |-> "map_err", input |-> r,
                       output |-> map_err(r, FromBadRequestError(r.value))]
           /\ ret' = Returned("push_request", arg[t],
                              IF r.ok THEN "Response" ELSE "BadRequest",
                              insts[plugin[t]].name, "", NoLib, plugin[t])
    /\ fnLock' = fnLock
    /\ gone' = {}
    /\ Finish(t)
    /\ UNCHANGED <<functions, loaded_libraries, builtins, insts, opened, owner, unloaded>>
    /\ UNCHANGED guards

\* receive_request returns Ok(response) or Err(BadRequestError), which
\* map_err(std::convert::Into::into) turns into AppError::BadRequest; the guard is
\* dropped on return (cfm.rs 279-282)
PrHandler(t) ==
    /\ At(t, "pr_handler")
    /\ \E r \in HandlerResults(insts[plugin[t]].name) :
           /\ conv' = [fn |-> "map_err", input |-> r,
                       output |-> map_err(r, FromBadRequestError(r.value))]
           /\ ret' = Returned("push_request", arg[t],
                              IF r.ok THEN "Response" ELSE "BadRequest",
                              insts[plugin[t]].name, "", NoLib, plugin[t])
    /\ fnLock' = NoTask
    /\ gone' = {}
    /\ Finish(t)
    /\ UNCHANGED <<functions, loaded_libraries, builtins, insts, opened, owner, unloaded>>
    /\ UNCHANGED guards

push_request(t) ==
    \/ \E target \in Names : PrGet(t, target)
    \/ PrHandler(t)

\* ===================================================== unload_all and Drop
\* &mut self: no call of a task is in flight
Exclusive == \A t \in Tasks : Idle(t)

\* the first loop of unload_all as it would be if the libraries were released first
UaReleasesLibrariesFirst(next) ==
    /\ loaded_libraries' = <<>>
    /\ functions' = EmptyTable
    /\ gone' = {on_plugin_unload(insts, i)[i] : i \in Held(functions)}
    /\ insts' = Dropped(insts, Held(functions))
    /\ owner' = next
    /\ ret' = NoRet
    /\ UNCHANGED <<builtins, fnLock, opened, taskVars, unloaded>>
    /\ UNCHANGED <<conv, guards>>

\* first loop of unload_all: `for (_id, plugin) in self.functions.get_mut().drain()
\* { plugin.on_plugin_unload(); }` (cfm.rs 243-247)
UaDrainFunctions(next) ==
    /\ functions' = EmptyTable
    /\ gone' = {on_plugin_unload(insts, i)[i] : i \in Held(functions)}
    /\ insts' = Dropped(insts, Held(functions))
    /\ owner' = next
    /\ ret' = NoRet
    /\ UNCHANGED <<loaded_libraries, builtins, fnLock, opened, taskVars, unloaded>>
    /\ UNCHANGED <<conv, guards>>

\* second loop of unload_all: `for lib in self.loaded_libraries.get_mut().drain(..)
\* { drop(lib); }` (cfm.rs 249-251)
UaDrainLibraries ==
    /\ OwnerAt({"ua_lib", "drop_lib"})
    /\ loaded_libraries' = <<>>
    /\ owner' = IF owner = "ua_lib" THEN "live" ELSE "dropped"
    /\ ret' = NoRet
    /\ gone' = {}
    /\ UNCHANGED <<functions, builtins, fnLock, insts, opened, taskVars, unloaded>>
    /\ UNCHANGED <<conv, guards>>

\* the owner calls unload_all (cfm.rs 243)
UnloadAllCall ==
    /\ OwnerAt({"live"})
    /\ Exclusive
    /\ UaDrainFunctions("ua_lib")

unload_all == UnloadAllCall \/ UaDrainLibraries

\* Drop as it would be without the call of unload_all
DropForgets ==
    /\ OwnerAt({"live"})
    /\ Exclusive
    /\ owner' = "dropped"
    /\ ret' = NoRet
    /\ gone' = {}
    /\ UNCHANGED <<functions, loaded_libraries, builtins, fnLock, insts,
                   opened, taskVars, unloaded>>
    /\ UNCHANGED <<conv, guards>>

\* Drop::drop: unload_all when a plugin or a library is left (cfm.rs 289-297)
Drop ==
    /\ OwnerAt({"live"})
    /\ Exclusive
    /\ LET has_plugins == Held(functions) # {}
           has_libs == loaded_libraries # <<>>
       IN  IF has_plugins \/ has_libs
           THEN UaDrainFunctions("drop_lib")
           ELSE /\ owner' = "dropped"
                /\ ret' = NoRet
                /\ gone' = {}
                /\ UNCHANGED <<functions, loaded_libraries, builtins, fnLock, insts,
                               opened, taskVars, unloaded>>
    /\ UNCHANGED <<conv, guards>>

\* ================================================================ callers
\* the caller takes the value its call returned: `let result = cfm.....await`
Observe ==
    /\ ret # NoRet
    /\ ret' = NoRet
    /\ gone' = {}
    /\ conv' = NoConv
    /\ UNCHANGED <<functions, loaded_libraries, builtins, fnLock, insts, opened,
                   taskVars, owner, unloaded>>
    /\ UNCHANGED guards

\* ================================================================== system
Next ==
    \/ \E t \in Tasks : load_plugin(t)
    \/ \E t \in Tasks : load_builtin_function(t)
    \/ \E t \in Tasks, target \in Names : unload_plugin(t, target)
    \/ \E t \in Tasks : push_request(t)
    \/ unload_all
    \/ Drop
    \/ Observe

Spec == Init /\ [][Next]_vars

\* a step of the call task t is running
Continue(t) == LpCtor(t) \/ LpCheck(t) \/ LpAdd(t) \/ LbInsert(t) \/ PrHandler(t)

\* Fair scheduling: a returned value is taken by its caller, and a task whose next step
\* is possible again and again (the runtime polls every woken task and the tokio mutex
\* hands the lock over in FIFO order) takes it; every handler returns.
Fairness ==
    /\ WF_vars(Observe)
    /\ \A t \in Tasks : SF_vars(Continue(t))

SpecFair == Spec /\ Fairness

\* ====================================================== the conversions
\* an error value is classified: AppError::as_generic_status_code
Classify(e) ==
    /\ conv = NoConv
    /\ conv' = [fn |-> "as_generic_status_code", input |-> e,
                output |-> as_generic_status_code(e)]
    /\ UNCHANGED <<functions, loaded_libraries, builtins, fnLock, insts, opened,
                   taskVars, ret, gone, owner, unloaded>>
    /\ UNCHANGED guards

\* a response leaves through the transport: into_warp / into_axum
Encode(r) ==
    /\ conv = NoConv
    /\ conv' = [fn |-> "into_response", input |-> r, output |-> into_response(r)]
    /\ UNCHANGED <<functions, loaded_libraries, builtins, fnLock, insts, opened,
                   taskVars, ret, gone, owner, unloaded>>
    /\ UNCHANGED guards

\* the status of a transport response is read back: GenericStatusCode::from(code)
Decode ==
    /\ conv.fn = "into_response"
    /\ conv' = [fn |-> "from", input |-> conv.output,
                output |-> [status |-> FromStatusCode(conv.output.status),
                            data |-> conv.output.body]]
    /\ UNCHANGED <<functions, loaded_libraries, builtins, fnLock, insts, opened,
                   taskVars, ret, gone, owner, unloaded>>
    /\ UNCHANGED guards

\* a 16-bit code is turned into a status class and back: from_u16, then to_u16
NumberStatus(i) ==
    /\ conv = NoConv
    /\ conv' = [fn |-> "from_u16.to_u16", input |-> i, between |-> from_u16(i),
                output |-> to_u16(from_u16(i))]
    /\ UNCHANGED <<functions, loaded_libraries, builtins, fnLock, insts, opened,
                   taskVars, ret, gone, owner, unloaded>>
    /\ UNCHANGED guards

\* a status class is turned into its 16-bit code and back: to_u16, then from_u16
StatusNumber(c) ==
    /\ conv = NoConv
    /\ conv' = [fn |-> "to_u16.from_u16", input |-> c, between |-> to_u16(c),
                output |-> from_u16(to_u16(c))]
    /\ UNCHANGED <<functions, loaded_libraries, builtins, fnLock, insts, opened,
                   taskVars, ret, gone, owner, unloaded>>
    /\ UNCHANGED guards

\* the converted value is consumed
Discard ==
    /\ conv.fn \in {"as_generic_status_code", "from", "from_u16.to_u16", "to_u16.from_u16"}
    /\ conv' = NoConv
    /\ UNCHANGED <<functions, loaded_libraries, builtins, fnLock, insts, opened,
                   taskVars, ret, gone, owner, unloaded>>
    /\ UNCHANGED guards

NextConv ==
    \/ \E e \in AppErrors : Classify(e)
    \/ \E r \in ComputeResponses : Encode(r)
    \/ \E i \in U16Samples : NumberStatus(i)
    \/ \E c \in GenericStatusCodes : StatusNumber(c)
    \/ Decode
    \/ Discard

SpecConv == Init /\ [][NextConv]_vars

\* ==================================================== the built-in logger
\* serde_json::Value: Null, Bool, Number, String, Array (the empty one) and Object
JsonNull == [kind |-> "Null"]
JsonBool(b) == [kind |-> "Bool", b |-> b]
JsonNumber(n) == [kind |-> "Number", n |-> n]
JsonString(s) == [kind |-> "String", s |-> s]
JsonArray == [kind |-> "Array"]
JsonObject(map) == [kind |-> "Object", map |-> map]

\* Value::is_string, Value::is_object
is_string(v) == v.kind = "String"
is_object(v) == v.kind = "Object"

\* impl Display for Value: the compact JSON text of a scalar or of the empty array
RenderValue(v) ==
    CASE v.kind = "Null" -> "null"
      [] v.kind = "Bool" -> IF v.b THEN "true" ELSE "false"
      [] v.kind = "Number" -> SubSeq("0123456789", v.n + 1, v.n + 1)
      [] v.kind = "String" -> "\"" \o v.s \o "\""
      [] v.kind = "Array" -> "[]"

\* char::to_lowercase on the ASCII letters; every other character is kept
LowerChar(c) ==
    LET upper == "ABCDEFGHIJKLMNOPQRSTUVWXYZ"
        lower == "abcdefghijklmnopqrstuvwxyz"
        at == {i \in 1..Len(upper) : SubSeq(upper, i, i) = c}
    IN  IF at = {} THEN c ELSE SubSeq(lower, CHOOSE i \in at : TRUE, CHOOSE i \in at : TRUE)

\* str::to_lowercase
RECURSIVE to_lowercase(_)
to_lowercase(s) ==
    IF Len(s) = 0 THEN ""
    ELSE LowerChar(SubSeq(s, 1, 1)) \o to_lowercase(SubSeq(s, 2, Len(s)))

\* impl FromStr for LogLevel
from_str(s) ==
    LET l == to_lowercase(s)
    IN  CASE l \in {"info", "i"} -> "Info"
          [] l \in {"warn", "w", "warning"} -> "Warn"
          [] l \in {"error", "e"} -> "Error"
          [] l \in {"debug", "d"} -> "Debug"
          [] l \in {"trace", "t"} -> "Trace"
          [] OTHER -> "Unknown"

\* LogLevel's Display as it would be if it wrote the name the request uses
FmtLowercase(level) ==
    CASE level = "Trace" -> "trace"
      [] level = "Debug" -> "debug"
      [] level = "Info" -> "info"
      [] level = "Warn" -> "warn"
      [] level = "Error" -> "error"
      [] level = "Unknown" -> " ??? "

\* impl Display for LogLevel
fmt(level) ==
    CASE level = "Trace" -> "Trace"
      [] level = "Debug" -> "Debug"
      [] level = "Info" -> " Info"
      [] level = "Warn" -> " Warn"
      [] level = "Error" -> "Error"
      [] level = "Unknown" -> " ??? "

\* send_log: the tracing macro that emits the line
send_log(lvl, log) ==
    [level |-> CASE lvl = "Trace" -> "trace"
                 [] lvl = "Debug" -> "debug"
                 [] lvl = "Info" -> "info"
                 [] lvl = "Warn" -> "warn"
                 [] lvl = "Error" -> "error"
                 [] lvl = "Unknown" -> "debug",
     text |-> log]

\* get_timestamp: Utc::now() in RFC 3339 with seconds and a Z suffix
Timestamps == {"2022-06-01T12:00:00Z", "2026-11-06T07:30:15Z"}

\* multi_string_keys: the string under the first of the keys that is present with a
\* string value (Some), or None, for which the caller's default stands
multi_string_keys(map, keys) ==
    LET hits == {i \in 1..Len(keys) :
                    keys[i] \in DOMAIN map /\ is_string(map[keys[i]])}
        first == CHOOSE i \in hits : \A j \in hits : i <= j
    IN  IF hits = {} THEN {} ELSE {map[keys[first]].s}

\* ComputeRequest::new(target, data)
ComputeRequest(target, payload) == [target |-> target, data |-> payload]

\* Logger::receive_request as it would be if an object without a message were rejected
ReceiveRequestNeedsMessage(request, ts) ==
    LET d == request.data
    IN  IF ~is_string(d) /\ ~is_object(d) THEN
            [result |-> Err(BadRequestError("logger", "Data must be an object or string",
                                            {request})),
             logs |-> <<>>]
        ELSE IF is_string(d) THEN
            [result |-> Ok(NoContent(Status("Ok"))),
             logs |-> <<send_log("Info", d.s)>>]
        ELSE
            LET obj == d.map
                lvl == multi_string_keys(obj, <<"level", "lvl", "l">>)
                level == IF lvl = {} THEN "Unknown" ELSE from_str(CHOOSE x \in lvl : TRUE)
                m == multi_string_keys(obj, <<"message", "msg", "m", "text", "log">>)
                msg == IF m = {} THEN "" ELSE CHOOSE x \in m : TRUE
                sd == multi_string_keys(obj, <<"sender", "s", "app", "self", "this">>)
                sender == IF sd = {} THEN "" ELSE CHOOSE x \in sd : TRUE
                log == IF "data" \in DOMAIN obj
                       THEN ts \o ":[" \o fmt(level) \o "]" \o sender \o "| " \o msg
                               \o " | " \o RenderValue(obj["data"])
                       ELSE ts \o ":[" \o fmt(level) \o "]" \o sender \o "| " \o msg
            IN  IF m = {} THEN
                    [result |-> Err(BadRequestError("logger", "Missing message",
                                                    {request})),
                     logs |-> <<>>]
                ELSE
                    [result |-> Ok(NoContent(Status("Ok"))),
                     logs |-> <<send_log(level, log)>>]

\* Logger::receive_request, with the timestamp get_timestamp returns: the result and
\* the lines emitted. Data that is neither a string nor an object is rejected with the
\* request attached (Some(request.clone())); a string is logged at info level; of an
\* object the level, message and sender are looked up under their aliases and the line
\* is formatted, with the `data` member appended when there is one. (The two branches
\* for as_str / as_object returning None cannot be taken after is_string / is_object.)
receive_request(request, ts) ==
    LET d == request.data
    IN  IF ~is_string(d) /\ ~is_object(d) THEN
            [result |-> Err(BadRequestError("logger", "Data must be an object or string",
                                            {request})),
             logs |-> <<>>]
        ELSE IF is_string(d) THEN
            [result |-> Ok(NoContent(Status("Ok"))),
             logs |-> <<send_log("Info", d.s)>>]
        ELSE
            LET obj == d.map
                lvl == multi_string_keys(obj, <<"level", "lvl", "l">>)
                level == IF lvl = {} THEN "Unknown" ELSE from_str(CHOOSE x \in lvl : TRUE)
                m == multi_string_keys(obj, <<"message", "msg", "m", "text", "log">>)
                msg == IF m = {} THEN "" ELSE CHOOSE x \in m : TRUE
                sd == multi_string_keys(obj, <<"sender", "s", "app", "self", "this">>)
                sender == IF sd = {} THEN "" ELSE CHOOSE x \in sd : TRUE
                log == IF "data" \in DOMAIN obj
                       THEN ts \o ":[" \o fmt(level) \o "]" \o sender \o "| " \o msg
                               \o " | " \o RenderValue(obj["data"])
                       ELSE ts \o ":[" \o fmt(level) \o "]" \o sender \o "| " \o msg
            IN  [result |-> Ok(NoContent(Status("Ok"))),
                 logs |-> <<send_log(level, log)>>]

\* member names and member values of the sampled object payloads
LoggerKeys == {"level", "lvl", "message", "sender", "data"}
LoggerMembers == {JsonString("warn"), JsonString("disk low"), JsonNumber(7)}

\* the payloads sent to the logger: every kind of JSON value
LoggerData ==
    {JsonNull, JsonBool(TRUE), JsonNumber(7), JsonArray,
     JsonString(""), JsonString("disk low"),
     JsonObject([lvl |-> JsonString("WARNING"), msg |-> JsonString("disk low")])}
    \cup {JsonObject(map) : map \in UNION {[S -> LoggerMembers] : S \in SUBSET LoggerKeys}}

\* push_request whose target is a built-in Logger: plugin.receive_request(request)
\* returns, its error is converted by map_err(Into::into), and the guard is dropped
\* (cfm.rs 279-282, logger.rs 67-134)
PrLogger(t) ==
    /\ At(t, "pr_handler")
    /\ insts[plugin[t]].by \in {"load_builtin_function", "load_builtin_instance"}
    /\ \E payload \in LoggerData, ts \in Timestamps :
           LET request == ComputeRequest(arg[t], payload)
               h == receive_request(request, ts)
           IN  /\ conv' = [fn |-> "receive_request", input |-> request, ts |-> ts,
                           handled |-> h.result, logs |-> h.logs,
                           output |-> map_err(h.result,
                                              FromBadRequestError(h.result.value))]
               /\ ret' = Returned("push_request", arg[t],
                                  IF h.result.ok THEN "Response" ELSE "BadRequest",
                                  insts[plugin[t]].name, "", NoLib, plugin[t])
    /\ fnLock' = NoTask
    /\ gone' = {}
    /\ Finish(t)
    /\ UNCHANGED <<functions, loaded_libraries, builtins, insts, opened, owner, unloaded>>
    /\ UNCHANGED guards

NextLogger ==
    \/ \E t \in Tasks : load_builtin_function(t)
    \/ \E t \in Tasks : PrGet(t, BuiltinName("Logger"))
    \/ \E t \in Tasks : PrLogger(t)
    \/ Observe

SpecLogger == Init /\ [][NextLogger]_vars

\* ==================================================== the warp transport
\* AddFunctionRequest, of which the handler reads lib_path(), and RemoveFunctionRequest,
\* of which it reads target() (warp_server.rs 92-96, 107-111)
AddFunctionRequest(lib_path) == [type |-> "AddFunctionRequest", lib_path |-> lib_path]
RemoveFunctionRequest(target) == [type |-> "RemoveFunctionRequest", target |-> target]

\* the JSON bodies that arrive
WireBodies ==
    {AddFunctionRequest(p) : p \in Paths} \cup {RemoveFunctionRequest(n) : n \in Names}

\* json_body_add_function: the body is extracted when it decodes as an
\* AddFunctionRequest, and the route is rejected otherwise
json_body_add_function(body) == body.type = "AddFunctionRequest"

\* json_body_remove_function
json_body_remove_function(body) == body.type = "RemoveFunctionRequest"

\* let cfm = cfm.lock().await: AppState is Arc<Mutex<ComputeFunctionManager>> and a
\* handler keeps the guard until its call has returned
AppStateFree == \A t \in Tasks : Idle(t)

\* handlers::add_function_handler: cfm.load_plugin(input.lib_path().to_string())
add_function_handler(t, input) ==
    /\ AppStateFree
    /\ LpOpen(t, input.lib_path)

\* handlers::remove_function_handler: cfm.unload_plugin(input.target())
remove_function_handler(t, input) ==
    /\ AppStateFree
    /\ unload_plugin(t, input.target)

\* handlers::process_input_handler: cfm.push_request(&input)
process_input_handler(t, target) ==
    /\ AppStateFree
    /\ PrGet(t, target)

\* filters::post_compute_request: POST /api
post_compute_request(t, target) == process_input_handler(t, target)

\* filters::post_add_function, documented as POST /add: path!("add"), post(),
\* json_body_remove_function(), and_then(handlers::remove_function_handler)
post_add_function(t, body) ==
    /\ json_body_remove_function(body)
    /\ remove_function_handler(t, body)

\* filters::post_remove_function, documented as POST /remove: path!("remove"), post(),
\* json_body_add_function(), and_then(handlers::add_function_handler)
post_remove_function(t, body) ==
    /\ json_body_add_function(body)
    /\ add_function_handler(t, body)

\* models::create_app_state: ComputeFunctionManager::with_logger()
create_app_state == Init /\ with_logger

NextWarp ==
    \/ \E t \in Tasks, body \in WireBodies : post_add_function(t, body)
    \/ \E t \in Tasks, body \in WireBodies : post_remove_function(t, body)
    \/ \E t \in Tasks, target \in Names : post_compute_request(t, target)
    \/ \E t \in Tasks : LpCtor(t) \/ LpCheck(t) \/ LpAdd(t) \/ PrHandler(t)
    \/ Observe

SpecWarp == create_app_state /\ [][NextWarp]_vars

\* ================================================= the calls, guard by guard
\* The same four calls with every `lock().await` and every end of a guard's scope as a
\* step of its own.  fnLock is the holder of the functions mutex, guards the holders
\* of the other two.

\* self.functions.lock().await returns the guard
LockFunctions(t) ==
    /\ fnLock = NoTask
    /\ fnLock' = t
    /\ UNCHANGED guards

\* the functions guard goes out of scope
DropFunctions(t) ==
    /\ fnLock' = IF fnLock = t THEN NoTask ELSE fnLock
    /\ UNCHANGED guards

\* self.loaded_libraries.lock().await or self.builtins.lock().await returns the guard
LockGuard(t, m) ==
    /\ guards[m] = NoTask
    /\ guards' = [guards EXCEPT ![m] = t]
    /\ UNCHANGED fnLock

\* that guard goes out of scope
DropGuard(t, m) ==
    /\ guards' = [guards EXCEPT ![m] = IF @ = t THEN NoTask ELSE @]
    /\ UNCHANGED fnLock

\* the call returns: whatever guard the task still has goes out of scope
DropAll(t) ==
    /\ fnLock' = IF fnLock = t THEN NoTask ELSE fnLock
    /\ guards' = [m \in DOMAIN guards |-> IF guards[m] = t THEN NoTask ELSE guards[m]]

\* what no step of a call touches
CallFrame == UNCHANGED <<ret, gone, owner, unloaded, conv>>

\* a call starts: the task is idle and the manager is not borrowed mutably
Starts(t) == pc[t] = "idle" /\ owner = "live" /\ ret = NoRet

\* the task moves on inside its call
Goto(t, l) == pc' = [pc EXCEPT ![t] = l]

\* ---- load_builtin_function (cfm.rs 80-95)
\* let mut lock = self.builtins.lock().await (cfm.rs 82)
LkLbLock(t, kind) ==
    /\ Starts(t)
    /\ LockGuard(t, "builtins")
    /\ Goto(t, "lbf_builtins")
    /\ arg' = [arg EXCEPT ![t] = kind]
    /\ UNCHANGED <<functions, loaded_libraries, builtins, insts, opened, lib, plugin>>
    /\ CallFrame

\* LkLbAdd as it would be without the block around the builtins guard, which then
\* lives until the call returns
LkLbAddKeepsGuard(t) ==
    /\ pc[t] = "lbf_builtins"
    /\ IF ~add(builtins, arg[t]) THEN
            /\ DropGuard(t, "builtins")
            /\ Finish(t)
            /\ UNCHANGED builtins
       ELSE
            /\ builtins' = builtins \cup {arg[t]}
            /\ UNCHANGED <<guards, fnLock>>
            /\ Goto(t, "lbf_between")
            /\ UNCHANGED <<arg, lib, plugin>>
    /\ UNCHANGED <<functions, loaded_libraries, insts, opened>>
    /\ CallFrame

\* if !lock.add(kind) { return Ok(false); } and the end of the block (cfm.rs 83-86):
\* the builtins guard is dropped on both ways out
LkLbAdd(t) ==
    /\ pc[t] = "lbf_builtins"
    /\ IF ~add(builtins, arg[t]) THEN
            /\ DropGuard(t, "builtins")
            /\ Finish(t)
            /\ UNCHANGED builtins
       ELSE
            /\ builtins' = builtins \cup {arg[t]}
            /\ DropGuard(t, "builtins")
            /\ Goto(t, "lbf_between")
            /\ UNCHANGED <<arg, lib, plugin>>
    /\ UNCHANGED <<functions, loaded_libraries, insts, opened>>
    /\ CallFrame

\* let mut lock = self.functions.lock().await (cfm.rs 89)
LkLbFnLock(t) ==
    /\ pc[t] = "lbf_between"
    /\ LockFunctions(t)
    /\ Goto(t, "lbf_functions")
    /\ UNCHANGED <<functions, loaded_libraries, builtins, insts, opened, arg, lib, plugin>>
    /\ CallFrame

\* kind.create(), lock.insert(..) and the end of the block (cfm.rs 90-92); Ok(true)
LkLbInsert(t) ==
    /\ pc[t] = "lbf_functions"
    /\ LET func == FreshInst(insts)
           name == BuiltinName(arg[t])
           replaced == Held(functions) \cap {functions[name]}
       IN  /\ functions' = MapInsert(functions, name, func)
           /\ insts' = Dropped(Boxed(insts, func,
                                     [NewInst(name, NoLib, "load_builtin_function")
                                      EXCEPT !.inserted = TRUE]), replaced)
    /\ DropAll(t)
    /\ Finish(t)
    /\ UNCHANGED <<loaded_libraries, builtins, opened>>
    /\ CallFrame

\* ---- load_plugin (cfm.rs 124-205)
\* the path checks pass and Library::new(path) opens the library (cfm.rs 128-155);
\* the failures before this point return with no guard taken
LkLpOpen(t, p) ==
    /\ Starts(t)
    /\ opened < MaxLibs
    /\ IsAbsolute(p) /\ TryExists(p) = "true" /\ LibraryOpens(p)
    /\ opened' = opened + 1
    /\ lib' = [lib EXCEPT ![t] = opened + 1]
    /\ arg' = [arg EXCEPT ![t] = p]
    /\ Goto(t, "lp_opened")
    /\ UNCHANGED <<functions, loaded_libraries, builtins, insts, plugin, fnLock, guards>>
    /\ CallFrame

\* let mut lock = self.loaded_libraries.lock().await (cfm.rs 162)
LkLpPushLock(t) ==
    /\ pc[t] = "lp_opened"
    /\ LockGuard(t, "loaded_libraries")
    /\ Goto(t, "lp_push")
    /\ UNCHANGED <<functions, loaded_libraries, builtins, insts, opened, arg, lib, plugin>>
    /\ CallFrame

\* lock.push(lib) and the end of the block (cfm.rs 163-164)
LkLpPush(t) ==
    /\ pc[t] = "lp_push"
    /\ loaded_libraries' = Append(loaded_libraries, NewLib(lib[t], arg[t]))
    /\ DropGuard(t, "loaded_libraries")
    /\ Goto(t, "lp_pushed")
    /\ UNCHANGED <<functions, builtins, insts, opened, arg, lib, plugin>>
    /\ CallFrame

\* let lib_lock = self.loaded_libraries.lock().await (cfm.rs 173)
LkLpLastLock(t) ==
    /\ pc[t] = "lp_pushed"
    /\ LockGuard(t, "loaded_libraries")
    /\ Goto(t, "lp_last")
    /\ UNCHANGED <<functions, loaded_libraries, builtins, insts, opened, arg, lib, plugin>>
    /\ CallFrame

\* last().unwrap().get(b"_plugin_create"), constructor(), the null test and
\* Box::from_raw; lib_lock is dropped by either `return Err` and at the end of the
\* unsafe block (cfm.rs 175-189)
LkLpCtor(t) ==
    /\ pc[t] = "lp_last"
    /\ LET l == Last(loaded_libraries)
       IN  IF ~HasCtor(l.path) THEN
                /\ Finish(t)
                /\ UNCHANGED insts
           ELSE \E boxed_raw \in CtorResults :
                IF boxed_raw = "null" THEN
                    /\ Finish(t)
                    /\ UNCHANGED insts
                ELSE
                    /\ insts' = Boxed(insts, FreshInst(insts),
                                      NewInst(PluginName(l.path), l.id, "load_plugin"))
                    /\ plugin' = [plugin EXCEPT ![t] = FreshInst(insts)]
                    /\ Goto(t, "lp_boxed")
                    /\ UNCHANGED <<arg, lib>>
    /\ DropGuard(t, "loaded_libraries")
    /\ UNCHANGED <<functions, loaded_libraries, builtins, opened>>
    /\ CallFrame

\* let fn_lock = self.functions.lock().await (cfm.rs 193)
LkLpCheckLock(t) ==
    /\ pc[t] = "lp_boxed"
    /\ LockFunctions(t)
    /\ Goto(t, "lp_check")
    /\ UNCHANGED <<functions, loaded_libraries, builtins, insts, opened, arg, lib, plugin>>
    /\ CallFrame

\* contains_key: a collision returns the error, otherwise the block ends; the guard is
\* dropped on both ways out, and plugin.on_plugin_load() runs without it
\* (cfm.rs 194-200)
LkLpCheck(t) ==
    /\ pc[t] = "lp_check"
    /\ LET plugin_name == insts[plugin[t]].name
       IN  IF contains_key(functions, plugin_name) THEN
                /\ insts' = Dropped(insts, {plugin[t]})
                /\ Finish(t)
           ELSE
                /\ insts' = on_plugin_load(insts, plugin[t])
                /\ Goto(t, "lp_checked")
                /\ UNCHANGED <<arg, lib, plugin>>
    /\ DropFunctions(t)
    /\ UNCHANGED <<functions, loaded_libraries, builtins, opened>>
    /\ CallFrame

\* let mut add_lock = self.functions.lock().await (cfm.rs 201)
LkLpAddLock(t) ==
    /\ pc[t] = "lp_checked"
    /\ LockFunctions(t)
    /\ Goto(t, "lp_insert")
    /\ UNCHANGED <<functions, loaded_libraries, builtins, insts, opened, arg, lib, plugin>>
    /\ CallFrame

\* add_lock.insert(plugin_name.to_string(), plugin); Ok(()) and the end of the function
\* (cfm.rs 202-205)
LkLpAdd(t) ==
    /\ pc[t] = "lp_insert"
    /\ LET plugin_name == insts[plugin[t]].name
           replaced == Held(functions) \cap {functions[plugin_name]}
       IN  /\ functions' = MapInsert(functions, plugin_name, plugin[t])
           /\ insts' = Dropped([insts EXCEPT ![plugin[t]].inserted = TRUE], replaced)
    /\ DropFunctions(t)
    /\ Finish(t)
    /\ UNCHANGED <<loaded_libraries, builtins, opened>>
    /\ CallFrame

\* ---- unload_plugin (cfm.rs 222-231)
\* let mut fn_locked = self.functions.lock().await (cfm.rs 223)
LkUpLock(t, target) ==
    /\ Starts(t)
    /\ LockFunctions(t)
    /\ Goto(t, "up_functions")
    /\ arg' = [arg EXCEPT ![t] = target]
    /\ UNCHANGED <<functions, loaded_libraries, builtins, insts, opened, lib, plugin>>
    /\ CallFrame

\* fn_locked.remove(..).map_or_else(..) and the end of the function (cfm.rs 224-231)
LkUnload(t) ==
    /\ pc[t] = "up_functions"
    /\ LET removed == functions[arg[t]]
       IN  IF removed = NoInst THEN UNCHANGED <<functions, insts>>
           ELSE /\ functions' = MapRemove(functions, arg[t])
                /\ insts' = Dropped(insts, {removed})
    /\ DropFunctions(t)
    /\ Finish(t)
    /\ UNCHANGED <<loaded_libraries, builtins, opened>>
    /\ CallFrame

\* ---- push_request (cfm.rs 274-286)
\* let plugins = self.functions.lock().await (cfm.rs 277)
LkPrLock(t, target) ==
    /\ Starts(t)
    /\ LockFunctions(t)
    /\ Goto(t, "pr_functions")
    /\ arg' = [arg EXCEPT ![t] = target]
    /\ UNCHANGED <<functions, loaded_libraries, builtins, insts, opened, lib, plugin>>
    /\ CallFrame

\* plugins.get(id): Some(plugin) awaits receive_request with the guard alive, None
\* returns TargetNotFound and drops it (cfm.rs 278-285)
LkPrGet(t) ==
    /\ pc[t] = "pr_functions"
    /\ IF functions[arg[t]] = NoInst THEN
            /\ DropFunctions(t)
            /\ Finish(t)
       ELSE
            /\ plugin' = [plugin EXCEPT ![t] = functions[arg[t]]]
            /\ Goto(t, "pr_running")
            /\ UNCHANGED <<arg, lib, fnLock, guards>>
    /\ UNCHANGED <<functions, loaded_libraries, builtins, insts, opened>>
    /\ CallFrame

\* receive_request returns, the result is converted and the guard is dropped at the end
\* of the function (cfm.rs 279-286)
LkPrHandler(t) ==
    /\ pc[t] = "pr_running"
    /\ DropFunctions(t)
    /\ Finish(t)
    /\ UNCHANGED <<functions, loaded_libraries, builtins, insts, opened>>
    /\ CallFrame

NextLocks ==
    \/ \E t \in Tasks, kind \in Kinds : LkLbLock(t, kind)
    \/ \E t \in Tasks : LkLbAdd(t) \/ LkLbFnLock(t) \/ LkLbInsert(t)
    \/ \E t \in Tasks, p \in Paths : LkLpOpen(t, p)
    \/ \E t \in Tasks : LkLpPushLock(t) \/ LkLpPush(t) \/ LkLpLastLock(t) \/ LkLpCtor(t)
    \/ \E t \in Tasks : LkLpCheckLock(t) \/ LkLpCheck(t) \/ LkLpAddLock(t) \/ LkLpAdd(t)
    \/ \E t \in Tasks, target \in Names : LkUpLock(t, target)
    \/ \E t \in Tasks : LkUnload(t)
    \/ \E t \in Tasks, target \in Names : LkPrLock(t, target)
    \/ \E t \in Tasks : LkPrGet(t) \/ LkPrHandler(t)

SpecLocks == Init /\ [][NextLocks]_vars

\* the locks of the manager that task t holds
HeldBy(t) ==
    {m \in DOMAIN guards : guards[m] = t}
    \cup (IF fnLock = t THEN {"functions"} ELSE {})

\* the instances a task holds between its constructor call and its insertion
InFlight == {plugin[t] : t \in {u \in Tasks : pc[u] \in {"lp_check", "lp_add"}}}

TypeOK ==
    /\ DOMAIN functions = Names
    /\ Held(functions) \subseteq DOMAIN insts
    /\ DOMAIN insts = Held(functions) \cup InFlight
    /\ builtins \subseteq Kinds
    /\ fnLock \in Tasks \cup {NoTask}
    /\ opened \in 0..MaxLibs
    /\ \A i \in 1..Len(loaded_libraries) : loaded_libraries[i].id \in 1..opened
    /\ owner \in {"live", "ua_lib", "drop_lib", "dropped"}
    /\ pc \in [Tasks -> {"idle", "lp_ctor", "lp_check", "lp_add", "lb_insert",
                         "pr_handler"}]


\* ================================================================== claims
\* the handles held by the collection
Handles(v) == {v[k].id : k \in 1..Len(v)}

\* task t leaves position l in this step
Leaves(t, l) == pc[t] = l /\ pc'[t] # l

\* C1: when load_plugin reaches its collision test with an instance whose name is a
\* key of the function table, it returns FunctionNameCollision carrying that name, the
\* table and the instance registered under the name stay as they were, and the
\* rejected instance is dropped without on_plugin_load having been called on it.
C1_CollisionRejected ==
    [][\A t \in Tasks :
          (Leaves(t, "lp_check") /\ contains_key(functions, insts[plugin[t]].name)) =>
              /\ ret'.op = "load_plugin"
              /\ ret'.tag = "FunctionNameCollision"
              /\ ret'.val = insts[plugin[t]].name
              /\ functions' = functions
              /\ insts'[functions[ret'.val]] = insts[functions[ret'.val]]
              /\ gone' = {insts[plugin[t]]}
              /\ \A g \in gone' : g.loads = 0 /\ ~g.inserted]_vars

C1_Witness ==
    /\ ret.op = "load_plugin"
    /\ ret.tag = "FunctionNameCollision"
    /\ contains_key(functions, ret.val)
    /\ gone # {}

\* C2: a load_plugin call never replaces an instance that is already stored in the
\* function table (so of several concurrent loads of one name only one can succeed).
C2_LoadNeverReplaces ==
    [][ret'.op = "load_plugin" =>
          \A n \in Names : contains_key(functions, n) => functions'[n] = functions[n]]_vars

\* C3: a library handle leaves the collection only in the second loop of unload_all,
\* when the function table is empty and every drained instance has received
\* on_plugin_unload; and the library of every existing instance is still held.
C3_LibraryLifetime ==
    /\ [](\A i \in DOMAIN insts :
            insts[i].lib # NoLib => insts[i].lib \in Handles(loaded_libraries))
    /\ [][Handles(loaded_libraries) \ Handles(loaded_libraries') # {} =>
            /\ owner \in {"ua_lib", "drop_lib"}
            /\ Held(functions) = {}
            /\ DOMAIN insts = {}
            /\ \A g \in gone : g.unloads = 1]_vars

C3_Witness ==
    /\ owner \in {"ua_lib", "drop_lib"}
    /\ loaded_libraries # <<>>
    /\ \E g \in gone : g.lib # NoLib

\* C4: on_plugin_load has been called exactly once on every instance that load_plugin
\* registered, before the instance is in the table; a load_plugin that returns Ok
\* leaves its own instance registered with one call; a load_plugin that returns an
\* error has called on_plugin_load on no instance.
C4_LoadHookOnce ==
    /\ \A i \in DOMAIN insts :
          /\ insts[i].loads <= 1
          /\ (insts[i].by = "load_plugin" /\ i \in Held(functions)) => insts[i].loads = 1
    /\ (ret.op = "load_plugin" /\ ret.tag = "Ok") =>
          /\ ret.plugin \in DOMAIN insts
          /\ functions[insts[ret.plugin].name] = ret.plugin
          /\ insts[ret.plugin].loads = 1
    /\ (ret.op = "load_plugin" /\ ret.tag # "Ok") =>
          /\ \A g \in gone : g.loads = 0
          /\ ret.plugin \notin DOMAIN insts

C4_Witness ==
    /\ ret.op = "load_plugin"
    /\ ret.tag = "Ok"
    /\ insts[ret.plugin].loads = 1

\* C5: an instance that was inserted into the function table has received
\* on_plugin_unload exactly once when it is dropped, and an instance that was never
\* inserted has received it zero times.
C5_UnloadHookOnce ==
    \A g \in gone : g.unloads = (IF g.inserted THEN 1 ELSE 0)

\* C6: push_request whose target is not a key of the function table returns
\* AppError::TargetNotFound carrying the target and starts no handler; a handler is
\* started only on the instance registered under the target.
C6_UnknownTarget ==
    [][/\ (ret'.op = "push_request" /\ ~contains_key(functions, ret'.arg)) =>
              /\ ret'.tag = "TargetNotFound"
              /\ ret'.val = ret'.arg
              /\ ret'.plugin = NoInst
              /\ pc' = pc
              /\ plugin' = plugin
       /\ \A t \in Tasks :
              (pc[t] = "idle" /\ pc'[t] = "pr_handler") =>
                  /\ contains_key(functions, arg'[t])
                  /\ plugin'[t] = functions[arg'[t]]]_vars

C6_Witness ==
    /\ ret.op = "push_request"
    /\ ret.tag = "TargetNotFound"
    /\ Held(functions) # {}

\* C7: while a name removed by a successful unload_plugin has not been registered
\* again, no handler runs for it and every push_request to it returns TargetNotFound.
C7_UnloadThenDispatch ==
    /\ \A n \in unloaded : ~contains_key(functions, n)
    /\ \A t \in Tasks : pc[t] = "pr_handler" => arg[t] \notin unloaded
    /\ (ret.op = "push_request" /\ ret.arg \in unloaded) => ret.tag = "TargetNotFound"

C7_Witness ==
    /\ ret.op = "push_request"
    /\ ret.arg \in unloaded
    /\ ret.tag = "TargetNotFound"

\* C8: unload_plugin on a target that is not in the function table returns
\* UnloadingError::TargetNotFound carrying the target, calls no hook, drops nothing and
\* leaves the table, the library collection and the built-in set unchanged.
C8_UnloadUnknown ==
    [][(ret'.op = "unload_plugin" /\ ~contains_key(functions, ret'.arg)) =>
          /\ ret'.tag = "Unloading::TargetNotFound"
          /\ ret'.val = ret'.arg
          /\ gone' = {}
          /\ UNCHANGED <<functions, loaded_libraries, builtins, insts>>]_vars

C8_Witness ==
    /\ ret.op = "unload_plugin"
    /\ ret.tag = "Unloading::TargetNotFound"
    /\ ret.val = ret.arg

\* C9: an unload_plugin call, successful or not, leaves the library-handle collection
\* exactly as it was.
C9_UnloadKeepsLibraries ==
    [][ret'.op = "unload_plugin" => loaded_libraries' = loaded_libraries]_vars

C9_Witness ==
    /\ ret.op = "unload_plugin"
    /\ ret.tag = "Ok"
    /\ \E g \in gone : g.lib \in Handles(loaded_libraries)

\* C10: a load_plugin that fails with BadPath, PathNotFound or LibraryLoadFailure has
\* added no handle; one that fails with ConstructorLoadFailure, ConstructorCallFailure
\* or FunctionNameCollision has added exactly one handle, which is in the collection
\* when it returns; a call adds at most one handle, and handles leave the collection
\* only in unload_all.
C10_LibraryRetention ==
    [][/\ (ret'.op = "load_plugin" /\
           ret'.tag \in {"BadPath", "PathNotFound", "LibraryLoadFailure"}) =>
              /\ ret'.lib = NoLib
              /\ pc' = pc
              /\ loaded_libraries' = loaded_libraries
       /\ (ret'.op = "load_plugin" /\
           ret'.tag \in {"ConstructorLoadFailure", "ConstructorCallFailure",
                         "FunctionNameCollision"}) =>
              /\ Cardinality({k \in 1..Len(loaded_libraries') :
                                  loaded_libraries'[k].id = ret'.lib}) = 1
              /\ loaded_libraries' = loaded_libraries
       /\ Len(loaded_libraries') > Len(loaded_libraries) =>
              /\ Len(loaded_libraries') = Len(loaded_libraries) + 1
              /\ \E t \in Tasks :
                    /\ pc[t] = "idle" /\ pc'[t] = "lp_ctor"
                    /\ Last(loaded_libraries').id = lib'[t]
                    /\ lib'[t] \notin Handles(loaded_libraries)
       /\ \A t \in Tasks : (pc[t] # "idle" /\ pc'[t] # "idle") => lib'[t] = lib[t]
       /\ Handles(loaded_libraries) \ Handles(loaded_libraries') # {} =>
              owner \in {"ua_lib", "drop_lib"}]_vars

C10_Witness ==
    /\ ret.op = "load_plugin"
    /\ ret.tag \in {"ConstructorLoadFailure", "ConstructorCallFailure"}
    /\ ret.lib \in Handles(loaded_libraries)

\* what a load_plugin call on path p reports when each check is made on p itself
Verdicts(p) ==
    IF ~IsAbsolute(p) THEN {"BadPath"}
    ELSE IF TryExists(p) = "false" THEN {"PathNotFound"}
    ELSE IF TryExists(p) = "err" THEN {"BadPath"}
    ELSE IF ~LibraryOpens(p) THEN {"LibraryLoadFailure"}
    ELSE IF ~HasCtor(p) THEN {"ConstructorLoadFailure"}
    ELSE {"ConstructorCallFailure", "FunctionNameCollision", "Ok"}

\* C11: load_plugin reports the first check that fails, in the order: path not
\* absolute (BadPath, also when the file is missing), path missing (PathNotFound),
\* I/O error on the existence test (BadPath with the OS error), library does not open
\* (LibraryLoadFailure), no `_plugin_create` symbol (ConstructorLoadFailure), null
\* constructor result (ConstructorCallFailure), name registered (FunctionNameCollision).
C11_CheckOrder ==
    [][ret'.op = "load_plugin" =>
          /\ ret'.tag \in Verdicts(ret'.arg)
          /\ (ret'.tag = "BadPath" /\ IsAbsolute(ret'.arg)) => ret'.detail = "os error"
          /\ ret'.tag = "FunctionNameCollision" => contains_key(functions, ret'.val)]_vars

\* C12: a step of a load_plugin call that returns an error, and every step of a call
\* before its insertion, leaves the function table, the registered instances and the
\* built-in set as they are; the call that returned an error is over (its task is idle,
\* no step of it follows without a new call).
C12_FailedLoadFrame ==
    [][/\ (ret'.op = "load_plugin" /\ ret'.tag # "Ok") =>
              /\ functions' = functions
              /\ builtins' = builtins
              /\ \A i \in Held(functions) : insts'[i] = insts[i]
              /\ \A t \in Tasks : pc'[t] = pc[t] \/ (pc'[t] = "idle" /\ lib'[t] = NoLib
                                                     /\ plugin'[t] = NoInst)
       /\ \A t \in Tasks :
              (pc'[t] \in {"lp_ctor", "lp_check", "lp_add"} /\ pc'[t] # pc[t]) =>
                  /\ functions' = functions
                  /\ builtins' = builtins
                  /\ \A i \in Held(functions) : insts'[i] = insts[i]]_vars

C12_Witness ==
    /\ ret.op = "load_plugin"
    /\ ret.tag \in {"ConstructorLoadFailure", "ConstructorCallFailure",
                    "FunctionNameCollision"}
    /\ Held(functions) # {}
    /\ builtins # {}

\* C13: every entry of the table is stored under the name of its instance; a
\* successful load of a function named B leaves the entry of every other name A and
\* its instance as they were and stores the new instance under B; a push_request to a
\* registered name starts the handler of the instance stored under that name and does
\* not return TargetNotFound.
C13_DistinctNamesCoexist ==
    /\ [](\A n \in Names : contains_key(functions, n) => insts[functions[n]].name = n)
    /\ [][/\ (ret'.op \in {"load_plugin", "load_builtin_function"} /\ ret'.tag = "Ok"
              /\ ret'.val # "false") =>
                 LET B == insts'[ret'.plugin].name
                 IN  /\ functions'[B] = ret'.plugin
                     /\ \A A \in Names \ {B} :
                           /\ functions'[A] = functions[A]
                           /\ contains_key(functions, A) =>
                                 insts'[functions[A]] = insts[functions[A]]
          /\ \A t \in Tasks :
                 (pc[t] = "idle" /\ pc'[t] = "pr_handler") =>
                     /\ plugin'[t] = functions[arg'[t]]
                     /\ insts[plugin'[t]].name = arg'[t]
          /\ (ret'.op = "push_request" /\ contains_key(functions, ret'.arg)) =>
                 ret'.tag # "TargetNotFound"]_vars

C13_Witness ==
    /\ \A n \in Names :
          contains_key(functions, n) /\ insts[functions[n]].by = "load_plugin"
    /\ \E t \in Tasks : pc[t] = "pr_handler"

\* C14: the load_builtin_function call that finds its kind absent from the tracking
\* set returns Ok(true) with the new instance registered under the kind's name; every
\* call that finds the kind present returns Ok(false), constructs and inserts nothing,
\* and (no first call being still on its way to the insertion) the table holds the
\* entry for the kind's name.
C14_BuiltinIdempotent ==
    [][ret'.op = "load_builtin_function" =>
          IF ret'.arg \in builtins /\ pc' = pc
          THEN /\ ret'.val = "false"
               /\ UNCHANGED <<functions, insts, builtins>>
               /\ (\A t \in Tasks : pc[t] # "lb_insert") =>
                      contains_key(functions', BuiltinName(ret'.arg))
          ELSE /\ ret'.val = "true"
               /\ functions'[BuiltinName(ret'.arg)] = ret'.plugin
               /\ insts'[ret'.plugin].name = BuiltinName(ret'.arg)]_vars

\* C15: no instance receives on_plugin_unload twice; Drop on a manager that holds an
\* instance or a handle runs unload_all once (the table is drained with one
\* notification each, then the handles are released); Drop on a manager whose
\* collections are both empty calls no hook and releases nothing; after Drop nothing
\* is left and nothing runs.
C15_TeardownOnce ==
    /\ [](\A i \in DOMAIN insts : insts[i].unloads = 0)
    /\ [](\A g \in gone : g.unloads <= 1)
    /\ [][/\ (owner = "live" /\ owner' = "dropped") =>
                 /\ Held(functions) = {}
                 /\ loaded_libraries = <<>>
                 /\ gone' = {}
                 /\ UNCHANGED <<functions, loaded_libraries, insts>>
          /\ (owner = "live" /\ owner' = "drop_lib") =>
                 /\ Held(functions) # {} \/ loaded_libraries # <<>>
                 /\ functions' = EmptyTable
                 /\ DOMAIN insts' = {}
                 /\ \A g \in gone' : g.unloads = 1
                 /\ (Held(functions) # {}) => gone' # {}
                 /\ loaded_libraries' = loaded_libraries
          /\ owner = "drop_lib" =>
                 /\ owner' = "dropped"
                 /\ loaded_libraries' = <<>>
                 /\ gone' = {}
          /\ owner' = "dropped" =>
                 /\ owner # "dropped"
                 /\ Held(functions') = {}
                 /\ loaded_libraries' = <<>>]_vars

C15_Witness ==
    /\ owner = "drop_lib"
    /\ gone # {}
    /\ loaded_libraries # <<>>

\* C16: between the collision check of a load_plugin call and its insertion no other
\* mutation of the function table takes effect on the entry the call has checked: the
\* entry under the name of the instance being loaded does not change.
C16_LoadAtomic ==
    [][\A t \in Tasks :
          (pc[t] = "lp_add" /\ pc'[t] = "lp_add") =>
              functions'[insts[plugin[t]].name] = functions[insts[plugin[t]].name]]_vars

\* C17: while the handler of a function A is suspended, a push_request to another
\* registered function B issued by a task that is free to call can start B's handler.
C17_DispatchIndependent ==
    \A t \in Tasks, u \in Tasks, B \in Names :
        (pc[t] = "pr_handler" /\ CanCall(u) /\ B # arg[t] /\ contains_key(functions, B))
            => ENABLED PrGet(u, B)

\* C17 as amended: a suspended handler holds the functions mutex, so at most one handler
\* is in flight; while the handler of A is suspended no push_request to B starts B's
\* handler or returns; the mutex is released when the handler returns, and with the
\* mutex free a push_request to a registered function starts its handler.
C17_DispatchSerialized ==
    /\ [](\A t \in Tasks : pc[t] = "pr_handler" <=> fnLock = t)
    /\ [](Cardinality({t \in Tasks : pc[t] = "pr_handler"}) <= 1)
    /\ [](\A u \in Tasks, B \in Names :
             (fnLock = NoTask /\ CanCall(u) /\ contains_key(functions, B))
                 => ENABLED PrGet(u, B))
    /\ [][\A t \in Tasks :
             /\ (pc[t] = "pr_handler" /\ pc'[t] = "pr_handler") =>
                    /\ ret'.op # "push_request"
                    /\ \A u \in Tasks : pc'[u] = "pr_handler" => u = t
             /\ (pc[t] = "pr_handler" /\ pc'[t] # "pr_handler") =>
                    /\ fnLock' = NoTask
                    /\ ret'.op = "push_request"]_vars

C17_Witness ==
    \E t \in Tasks, u \in Tasks, B \in Names :
        /\ pc[t] = "pr_handler"
        /\ CanCall(u)
        /\ B # arg[t]
        /\ contains_key(functions, B)

\* C18: a push_request returns TargetNotFound, the handler's response or BadRequest and
\* nothing else; for a registered target a handler success is returned as the same
\* response (same variant, status and data) and a handler BadRequestError e as
\* AppError::BadRequest(e) with the same sender, message and attached request.
C18_PushNormalization ==
    ret.op = "push_request" =>
        /\ ret.tag \in {"TargetNotFound", "Response", "BadRequest"}
        /\ ret.tag = "TargetNotFound" => conv = NoConv
        /\ ret.tag # "TargetNotFound" =>
              /\ conv.fn = "map_err"
              /\ conv.input \in HandlerResults(ret.val)
              /\ conv.input.ok =>
                    /\ ret.tag = "Response"
                    /\ conv.output.ok
                    /\ conv.output.value.variant = conv.input.value.variant
                    /\ conv.output.value.status = conv.input.value.status
                    /\ conv.output.value.data = conv.input.value.data
              /\ ~conv.input.ok =>
                    /\ ret.tag = "BadRequest"
                    /\ ~conv.output.ok
                    /\ conv.output.value.variant = "BadRequest"
                    /\ conv.output.value.inner.sender = conv.input.value.sender
                    /\ conv.output.value.inner.message = conv.input.value.message
                    /\ conv.output.value.inner.request = conv.input.value.request

C18_Witness ==
    /\ ret.op = "push_request"
    /\ ret.tag = "BadRequest"
    /\ conv.fn = "map_err"
    /\ conv.output.value.inner.request = "Some(request)"

\* the kind of a Loading or Unloading error, "" for the other variants
KindOf(e) == IF e.variant \in {"Loading", "Unloading"} THEN e.inner.kind ELSE ""

\* C19: as_generic_status_code maps BadInput and BadRequest to BadRequest;
\* TargetNotFound, Unloading(TargetNotFound) and Loading(PathNotFound) to NotFound;
\* Loading(FunctionNameCollision) to Conflict; Loading(BadPath) to PreconditionFailed;
\* every other AppError to InternalError; never to Ok, Unknown or Other(code).
C19_StatusMapping ==
    conv.fn = "as_generic_status_code" =>
        LET e == conv.input
            class == conv.output
            expected ==
                IF e.variant \in {"BadInput", "BadRequest"} THEN "BadRequest"
                ELSE IF e.variant = "TargetNotFound" THEN "NotFound"
                ELSE IF e.variant = "Unloading" /\ KindOf(e) = "TargetNotFound"
                     THEN "NotFound"
                ELSE IF e.variant = "Loading" /\ KindOf(e) = "PathNotFound"
                     THEN "NotFound"
                ELSE IF e.variant = "Loading" /\ KindOf(e) = "FunctionNameCollision"
                     THEN "Conflict"
                ELSE IF e.variant = "Loading" /\ KindOf(e) = "BadPath"
                     THEN "PreconditionFailed"
                ELSE "InternalError"
        IN  /\ class.code = expected
            /\ class.n = 0
            /\ class.code \notin {"Ok", "Unknown", "Other"}

C19_Witness ==
    /\ conv.fn = "as_generic_status_code"
    /\ conv.input.variant = "Loading"
    /\ conv.input.inner.kind = "BadPath"
    /\ conv.output = Status("PreconditionFailed")

\* C20: for every response NoContent(s) or Json(s, data), decoding the transport
\* status produced by to_status_code with From<StatusCode> gives back the status class
\* s, and the data that arrives is the data of the response.
C20_StatusRoundTrip ==
    [][conv'.fn = "from" =>
          /\ conv'.output.status = status(conv.input)
          /\ conv'.output.data = data(conv.input)]_vars

\* C22: a load_builtin_function call, whether it returns true or false, leaves the
\* library-handle collection as it is; no built-in instance has a library; and a
\* manager on which no library was opened, however it was constructed, has an empty
\* collection.
C22_BuiltinsNoLibrary ==
    /\ [](\A i \in DOMAIN insts :
             insts[i].by \in {"load_builtin_function", "load_builtin_instance"} =>
                 insts[i].lib = NoLib)
    /\ [](opened = 0 => loaded_libraries = <<>>)
    /\ [][/\ ret'.op = "load_builtin_function" => loaded_libraries' = loaded_libraries
          /\ \A t \in Tasks :
                 (pc'[t] = "lb_insert" /\ pc[t] # "lb_insert") =>
                     loaded_libraries' = loaded_libraries]_vars

C22_Witness ==
    /\ ret.op = "load_builtin_function"
    /\ ret.val = "true"
    /\ loaded_libraries # <<>>
    /\ insts[ret.plugin].lib = NoLib

\* C23: a load_plugin call passes the constructor step once; that step creates exactly
\* one owned instance when the raw handle is not null, and none when it is null or the
\* symbol is missing; a null handle makes the call return ConstructorCallFailure, which
\* carries no message; no other step of load_plugin creates an instance.
C23_BoxedOnce ==
    [][\A t \in Tasks :
          /\ pc'[t] = "lp_ctor" => pc[t] \in {"idle", "lp_ctor"}
          /\ (pc[t] = "lp_ctor" /\ pc'[t] = "lp_check") =>
                /\ plugin'[t] \notin DOMAIN insts
                /\ DOMAIN insts' = DOMAIN insts \cup {plugin'[t]}
                /\ insts'[plugin'[t]].by = "load_plugin"
          /\ (pc[t] = "lp_ctor" /\ pc'[t] = "idle") =>
                /\ insts' = insts
                /\ ret'.plugin = NoInst
                /\ ret'.tag \in {"ConstructorLoadFailure", "ConstructorCallFailure"}
                /\ ret'.tag = "ConstructorCallFailure" =>
                      ret'.val = "" /\ ret'.detail = ""
          /\ (pc[t] \in {"idle", "lp_check", "lp_add"} /\ pc'[t] # "lb_insert"
              /\ ret'.op # "load_builtin_function" /\ pc'[t] # pc[t]) =>
                DOMAIN insts' \subseteq DOMAIN insts]_vars

C23_Witness ==
    /\ ret.op = "load_plugin"
    /\ ret.tag = "ConstructorCallFailure"
    /\ ret.plugin = NoInst
    /\ ret.detail = ""

\* C26: on_plugin_load has been called exactly once on every registered instance that
\* came from load_builtin_function, with_logger or with_builtins.
C26_BuiltinLoadHook ==
    \A i \in Held(functions) :
        insts[i].by \in {"load_builtin_function", "load_builtin_instance"} =>
            insts[i].loads = 1

\* C27: a load_plugin call resolves and calls `_plugin_create` in the library it opened
\* and pushed itself, so the instance it holds comes from its own library.
C27_OwnLibrary ==
    \A t \in Tasks :
        pc[t] \in {"lp_check", "lp_add"} => insts[plugin[t]].lib = lib[t]

\* C28: load_builtin_function never replaces an entry of the function table: an
\* instance registered under the built-in's name stays registered.
C28_BuiltinNeverReplaces ==
    [][ret'.op = "load_builtin_function" =>
          \A n \in Names : contains_key(functions, n) => functions'[n] = functions[n]]_vars

\* C29: when the instance registered under a kind's name was put there at construction
\* (with_logger, with_builtins), load_builtin_function for that kind returns Ok(false)
\* and leaves that instance in place.
C29_ConstructedCountsAsLoaded ==
    [][(/\ ret'.op = "load_builtin_function"
        /\ contains_key(functions, BuiltinName(ret'.arg))
        /\ insts[functions[BuiltinName(ret'.arg)]].by = "load_builtin_instance") =>
            /\ ret'.val = "false"
            /\ functions' = functions]_vars

\* C30: with no other load_builtin_function call in flight, a load_builtin_function
\* call for a kind whose name was removed by a successful unload_plugin and has not been
\* registered since returns Ok(true) and leaves the name registered.
C30_ReloadAfterUnload ==
    [][(/\ ret'.op = "load_builtin_function"
        /\ BuiltinName(ret'.arg) \in unloaded
        /\ \A t \in Tasks : pc[t] # "lb_insert") =>
          /\ ret'.val = "true"
          /\ contains_key(functions', BuiltinName(ret'.arg))]_vars

\* C21: under fair scheduling every call in flight eventually returns, and no reachable
\* state has a call in flight while neither a task's next step nor the delivery of a
\* returned value is possible.
C21_Progress ==
    /\ [](\A t \in Tasks : ~Idle(t) => ENABLED (Observe \/ \E u \in Tasks : Continue(u)))
    /\ \A t \in Tasks : (~Idle(t)) ~> Idle(t)

C21_Witness ==
    \E t \in Tasks, u \in Tasks :
        /\ pc[t] \in {"lp_check", "lp_add", "lb_insert"}
        /\ pc[u] = "pr_handler"
        /\ fnLock = u
        /\ ret = NoRet

\* str::contains: pat occurs in s
Contains(s, pat) ==
    \E i \in 1..(Len(s) + 1) :
        i + Len(pat) <= Len(s) + 1 /\ SubSeq(s, i, i + Len(pat) - 1) = pat

\* the payload of the scenario: {"level":"warn","message":"disk low"}
WarnDiskLow ==
    JsonObject([level |-> JsonString("warn"), message |-> JsonString("disk low")])

\* C24 as stated: a push_request to the built-in logger with data
\* {"level":"warn","message":"disk low"} returns NoContent(Ok) and emits exactly one
\* line, at warn level, that contains "warn" and "disk low".
C24_LoggerScenario ==
    (conv.fn = "receive_request" /\ conv.input.data = WarnDiskLow) =>
        /\ conv.output = Ok(NoContent(Status("Ok")))
        /\ Len(conv.logs) = 1
        /\ conv.logs[1].level = "warn"
        /\ Contains(conv.logs[1].text, "warn")
        /\ Contains(conv.logs[1].text, "disk low")

\* C24: a push_request to the built-in logger with data
\* {"level":"warn","message":"disk low"} returns NoContent(Ok) and emits exactly one
\* line, at warn level, which is the timestamp followed by ":[ Warn]| disk low": it
\* contains "Warn" and "disk low" and does not contain "warn".
C24_LoggerLine ==
    (conv.fn = "receive_request" /\ conv.input.data = WarnDiskLow) =>
        /\ conv.output = Ok(NoContent(Status("Ok")))
        /\ ret.op = "push_request" /\ ret.tag = "Response"
        /\ Len(conv.logs) = 1
        /\ conv.logs[1].level = "warn"
        /\ conv.logs[1].text = conv.ts \o ":[ Warn]| disk low"
        /\ Contains(conv.logs[1].text, "Warn")
        /\ Contains(conv.logs[1].text, "disk low")
        /\ ~Contains(conv.logs[1].text, "warn")

C24_Witness ==
    /\ conv.fn = "receive_request"
    /\ conv.input = ComputeRequest("logger", WarnDiskLow)
    /\ insts[ret.plugin].by = "load_builtin_function"
    /\ conv.logs # <<>>

\* C25: the logger's receive_request fails exactly when the data is neither a string
\* nor an object; the error has sender "logger" and carries the request, no line is
\* emitted, and push_request hands it on as a bad request; for every string or object
\* the result is NoContent(Ok).
C25_LoggerValidation ==
    conv.fn = "receive_request" =>
        LET invalid == ~is_string(conv.input.data) /\ ~is_object(conv.input.data)
        IN  /\ ~conv.handled.ok <=> invalid
            /\ invalid =>
                  /\ conv.handled.value.sender = "logger"
                  /\ conv.handled.value.request = {conv.input}
                  /\ conv.logs = <<>>
                  /\ conv.output = Err(FromBadRequestError(conv.handled.value))
                  /\ ret.tag = "BadRequest"
            /\ ~invalid =>
                  /\ conv.handled = Ok(NoContent(Status("Ok")))
                  /\ conv.output = conv.handled

C25_Witness ==
    /\ conv.fn = "receive_request"
    /\ conv.input.data = JsonArray
    /\ ~conv.handled.ok
    /\ conv.handled.value.request = {ComputeRequest("logger", JsonArray)}

\* C31: of the load_builtin_function calls for one kind at most one goes on to insert
\* and return Ok(true); and when such a call has returned while the calls for the kind
\* are concurrent, the kind's name is registered unless it was unloaded since, so a
\* push_request issued then finds it.
C31_ConcurrentBuiltinLoad ==
    /\ \A k \in Kinds : Cardinality({t \in Tasks : pc[t] = "lb_insert" /\ arg[t] = k}) <= 1
    /\ (/\ ret.op = "load_builtin_function"
        /\ BuiltinName(ret.arg) \notin unloaded
        /\ \/ ret.val = "true"
           \/ \E t \in Tasks : pc[t] = "lb_insert" /\ arg[t] = ret.arg) =>
            contains_key(functions, BuiltinName(ret.arg))

\* C32: while a handler of an instance is in flight the instance is registered and
\* its on_plugin_unload has not run and cannot run: no unload_plugin of its name can
\* take its step, and no step removes or notifies it; a handler is never started on
\* an instance whose on_plugin_unload has run.
C32_NoUnloadUnderHandler ==
    /\ [](\A t \in Tasks : pc[t] = "pr_handler" =>
             /\ plugin[t] \in DOMAIN insts
             /\ insts[plugin[t]].unloads = 0
             /\ functions[arg[t]] = plugin[t]
             /\ ~ENABLED (\E u \in Tasks : unload_plugin(u, arg[t])))
    /\ [][\A t \in Tasks :
             /\ (pc[t] = "pr_handler" /\ pc'[t] = "pr_handler") =>
                   /\ plugin[t] \in DOMAIN insts'
                   /\ insts'[plugin[t]] = insts[plugin[t]]
             /\ (pc[t] # "pr_handler" /\ pc'[t] = "pr_handler") =>
                   /\ plugin'[t] \in DOMAIN insts'
                   /\ insts'[plugin'[t]].unloads = 0]_vars

C32_Witness ==
    \E t \in Tasks, u \in Tasks :
        /\ pc[t] = "pr_handler"
        /\ pc[u] = "idle"
        /\ owner = "live"
        /\ ret = NoRet
        /\ contains_key(functions, arg[t])

\* C34: every entry of the function table is stored under the name of the instance it
\* holds, whichever operation inserted it.
C34_KeyIsName ==
    \A n \in Names : contains_key(functions, n) => insts[functions[n]].name = n

C34_Witness ==
    \E n \in Names, m \in Names :
        /\ contains_key(functions, n)
        /\ contains_key(functions, m)
        /\ insts[functions[n]].by = "load_plugin"
        /\ insts[functions[m]].by \in {"load_builtin_function", "load_builtin_instance"}

\* C35: the steps of push_request (the lookup, the handler's return, and the return of
\* TargetNotFound) leave the function table, the library collection, the built-in
\* tracking set and every instance, with its hook counts, as they were.
C35_PushReadOnly ==
    [][(\/ ret'.op = "push_request"
        \/ \E t \in Tasks : pc[t] = "idle" /\ pc'[t] = "pr_handler") =>
            /\ functions' = functions
            /\ loaded_libraries' = loaded_libraries
            /\ builtins' = builtins
            /\ insts' = insts]_vars

C35_Witness ==
    /\ ret.op = "push_request"
    /\ ret.tag = "TargetNotFound"
    /\ loaded_libraries # <<>>
    /\ builtins # {}
    /\ Held(functions) # {}

\* C36 as stated: to_u16(from_u16(i)) = i for every 16-bit code i, and
\* from_u16(to_u16(s)) = s for every GenericStatusCode s, Other(i) included.
C36_NumericRoundTrip ==
    /\ conv.fn = "from_u16.to_u16" => conv.output = conv.input
    /\ conv.fn = "to_u16.from_u16" => conv.output = conv.input

\* the 16-bit codes that from_u16 gives a class of their own
NamedCodes == {0, 200, 400, 404, 409, 412, 500}

\* C36: to_u16(from_u16(i)) = i for every 16-bit code i; from_u16(to_u16(s)) = s for
\* every class s other than an Other(i) whose i is one of the named codes, and such an
\* Other(i) comes back as the class named for i, which has the same 16-bit code.
C36_CanonicalRoundTrip ==
    /\ conv.fn = "from_u16.to_u16" =>
          /\ conv.output = conv.input
          /\ conv.between.code = "Other" <=> conv.input \notin NamedCodes
    /\ conv.fn = "to_u16.from_u16" =>
          IF conv.input.code = "Other" /\ conv.input.n \in NamedCodes
          THEN /\ conv.output.code \notin {"Other"}
               /\ conv.output # conv.input
               /\ to_u16(conv.output) = conv.input.n
          ELSE conv.output = conv.input

C36_Witness ==
    /\ conv.fn = "to_u16.from_u16"
    /\ conv.input = Other(409)
    /\ conv.between = 409
    /\ conv.output = Status("Conflict")

\* C37: a step of the route documented as POST /add carries an add-function request
\* and is a call of load_plugin, and a step of the route documented as POST /remove
\* carries a remove-function request and is a call of unload_plugin.
C37_WarpRoutes ==
    [][\A t \in Tasks, body \in WireBodies :
          /\ post_add_function(t, body) =>
                /\ body.type = "AddFunctionRequest"
                /\ ret'.op = "load_plugin" \/ pc'[t] = "lp_ctor"
          /\ post_remove_function(t, body) =>
                /\ body.type = "RemoveFunctionRequest"
                /\ ret'.op = "unload_plugin"]_vars

\* C33: in every reachable state each task holds at most one of the three locks of the
\* manager, and a task that is waiting for a lock holds none.
C33_OneLock ==
    \A t \in Tasks :
        /\ Cardinality(HeldBy(t)) <= 1
        /\ pc[t] \in {"idle", "lbf_between", "lp_opened", "lp_pushed", "lp_boxed",
                      "lp_checked"} => HeldBy(t) = {}

C33_Witness ==
    \E t \in Tasks, u \in Tasks :
        /\ pc[t] = "lp_last"
        /\ HeldBy(t) = {"loaded_libraries"}
        /\ pc[u] = "lbf_functions"
        /\ HeldBy(u) = {"functions"}

====
